---- MODULE Spec2Model ----
(***************************************************************************)
(* A model of ginga.util.wcsmod (src/ginga/util/wcsmod.py): the backend    *)
(* registry (module state + use() + the import-time probe), the WCS engine *)
(* classes, the coordinate-system classifier and the BareBonesWCS affine   *)
(* transform.                                                              *)
(*                                                                         *)
(* Conventions.  A Python str is a sequence of one-character strings, so   *)
(* that strip()/upper()/lower()/re.match are computed, not assumed.  A     *)
(* header value is a tagged record (str / num / bool).  A Python float is  *)
(* an IEEE 754 double, held as sign, odd significand and binary exponent,  *)
(* and every operation on floats is rounded as the double operation is.    *)
(***************************************************************************)
EXTENDS Integers, Sequences, FiniteSets, TLC

VARIABLES
    \* ---- registry: module globals of wcsmod.py
    env,            \* the modules the interpreter can import (environment)
    coord_types,    \* wcsmod.coord_types
    wcs_configured, \* wcsmod.wcs_configured
    have_kapteyn, have_astlib, have_starlink, have_astropy,
    WCS,            \* wcsmod.WCS: the active engine class
    bound,          \* global names bound by the imports inside use()
    NUMPY_MODE,     \* astWCS.NUMPY_MODE as set by use('astlib')
    pc,             \* "start" | "probe" | "loaded" | "running"
    i,              \* position of the import-time loop in ProbeOrder
    call,           \* arguments of the last use() call
    ret,            \* result of the last use() call
    \* ---- one engine instance and its caller
    kind,           \* the engine's class
    header,         \* self.header
    wcs,            \* self.wcs
    coordsys,       \* self.coordsys
    icrs_trans,     \* StarlinkWCS.icrs_trans (attribute set or not)
    caller,         \* the mapping owned by the caller
    op,             \* the last operation and its arguments
    out,            \* what the last operation returned or raised
    logged          \* whether the last operation called logger.error

regvars == <<env, coord_types, wcs_configured, have_kapteyn, have_astlib,
             have_starlink, have_astropy, WCS, bound, NUMPY_MODE, pc, i,
             call, ret>>
engvars == <<kind, header, wcs, coordsys, icrs_trans, caller, op, out, logged>>
vars == <<regvars, engvars>>

----------------------------------------------------------------------------
(* Python str values used as coordinate-system tags.                       *)

raw      == <<"r","a","w">>
icrs     == <<"i","c","r","s">>
fk5      == <<"f","k","5">>
fk4      == <<"f","k","4">>
galactic == <<"g","a","l","a","c","t","i","c">>
ecliptic == <<"e","c","l","i","p","t","i","c">>
j2000    == <<"j","2","0","0","0">>
b1950    == <<"b","1","9","5","0">>

----------------------------------------------------------------------------
(* The registry.                                                           *)

Modules == {"kapteyn.wcs", "starlink.Ast", "starlink.Atl", "astLib",
            "astropy.io.fits", "pyfits", "astropy.wcs", "pywcs",
            "astropy.coordinates", "astropy.units"}

PackageNames == {"kapteyn", "starlink", "astlib", "astropy", "barebones",
                 "pyast"}

Globals ==
    [coord_types |-> coord_types, wcs_configured |-> wcs_configured,
     have_kapteyn |-> have_kapteyn, have_astlib |-> have_astlib,
     have_starlink |-> have_starlink, have_astropy |-> have_astropy,
     WCS |-> WCS, bound |-> bound, NUMPY_MODE |-> NUMPY_MODE]

\* what an except ImportError clause of use() does
ImportFailed(g, raise_err) ==
    [g |-> g, ret |-> IF raise_err THEN "ImportError" ELSE "False"]

use_kapteyn(g, raise_err, mods) ==
    IF "kapteyn.wcs" \in mods
    THEN [g |-> [g EXCEPT !.bound = @ \cup {"kapwcs"},
                          !.coord_types = <<icrs, fk5, fk4, galactic, ecliptic>>,
                          !.have_kapteyn = TRUE,
                          !.wcs_configured = TRUE,
                          !.WCS = "KapteynWCS"],
          ret |-> "True"]
    ELSE ImportFailed(g, raise_err)

use_starlink(g, raise_err, mods) ==
    IF "starlink.Ast" \notin mods
    THEN ImportFailed(g, raise_err)
    ELSE LET g1 == [g EXCEPT !.bound = @ \cup {"Ast"}] IN
         IF "starlink.Atl" \notin mods
         THEN ImportFailed(g1, raise_err)
         ELSE [g |-> [g1 EXCEPT !.bound = @ \cup {"Atl"},
                                !.coord_types = <<icrs, fk5, fk4, galactic, ecliptic>>,
                                !.have_starlink = TRUE,
                                !.wcs_configured = TRUE,
                                !.WCS = "StarlinkWCS"],
               ret |-> "True"]

use_astlib(g, raise_err, mods) ==
    IF "astLib" \notin mods
    THEN ImportFailed(g, raise_err)
    ELSE LET g1 == [g EXCEPT !.bound = @ \cup {"astWCS", "astCoords"}] IN
         IF "astropy.io.fits" \notin mods /\ "pyfits" \notin mods
         THEN ImportFailed(g1, raise_err)
         ELSE [g |-> [g1 EXCEPT !.NUMPY_MODE = TRUE,
                                !.coord_types = <<j2000, b1950, galactic>>,
                                !.have_astlib = TRUE,
                                !.wcs_configured = TRUE,
                                !.WCS = "AstLibWCS"],
               ret |-> "True"]

\* lines 110-120: the first try block of the astropy branch.  The result is
\* the globals after it and whether it re-raised.
use_astropy_wcs(g, raise_err, mods) ==
    LET g1 == IF "astropy.wcs" \in mods \/ "pywcs" \in mods
              THEN [g EXCEPT !.bound = @ \cup {"pywcs"}] ELSE g
        found == \/ "astropy.wcs" \in mods /\ "astropy.io.fits" \in mods
                 \/ "pywcs" \in mods
    IN [g |-> g1, raised |-> ~found /\ raise_err]

\* lines 122-134: the second try block of the astropy branch
use_astropy_coordinates(g, raise_err, mods) ==
    IF "astropy.coordinates" \notin mods
    THEN ImportFailed(g, raise_err)
    ELSE LET g1 == [g EXCEPT !.bound = @ \cup {"coordinates"}] IN
         IF "astropy.units" \notin mods
         THEN ImportFailed(g1, raise_err)
         ELSE [g |-> [g1 EXCEPT !.bound = @ \cup {"units"},
                                !.have_astropy = TRUE,
                                !.wcs_configured = TRUE,
                                !.coord_types = <<icrs, fk5, fk4, galactic>>,
                                !.WCS = "AstropyWCS"],
               ret |-> "True"]

use_astropy(g, raise_err, mods) ==
    LET first == use_astropy_wcs(g, raise_err, mods) IN
    IF first.raised
    THEN [g |-> first.g, ret |-> "ImportError"]
    ELSE use_astropy_coordinates(first.g, raise_err, mods)

use_barebones(g) ==
    [g |-> [g EXCEPT !.coord_types = <<fk5>>, !.WCS = "BareBonesWCS"],
     ret |-> "False"]

\* use(wcspkg, raise_err) in an interpreter that can import `mods`
use(g, wcspkg, raise_err, mods) ==
    CASE wcspkg = "kapteyn"   -> use_kapteyn(g, raise_err, mods)
      [] wcspkg = "starlink"  -> use_starlink(g, raise_err, mods)
      [] wcspkg = "astlib"    -> use_astlib(g, raise_err, mods)
      [] wcspkg = "astropy"   -> use_astropy(g, raise_err, mods)
      [] wcspkg = "barebones" -> use_barebones(g)
      [] OTHER                -> [g |-> g, ret |-> "False"]

ProbeOrder == <<"kapteyn", "starlink", "pyast", "astropy">>

SetGlobals(g) ==
    /\ coord_types' = g.coord_types
    /\ wcs_configured' = g.wcs_configured
    /\ have_kapteyn' = g.have_kapteyn
    /\ have_astlib' = g.have_astlib
    /\ have_starlink' = g.have_starlink
    /\ have_astropy' = g.have_astropy
    /\ WCS' = g.WCS
    /\ bound' = g.bound
    /\ NUMPY_MODE' = g.NUMPY_MODE

RegInit ==
    /\ env \in SUBSET Modules
    /\ coord_types = <<>>
    /\ wcs_configured = FALSE
    /\ have_kapteyn = FALSE
    /\ have_astlib = FALSE
    /\ have_starlink = FALSE
    /\ have_astropy = FALSE
    /\ WCS = "None"
    /\ bound = {}
    /\ NUMPY_MODE = FALSE
    /\ pc = "start"
    /\ i = 1
    /\ call = [wcspkg |-> "", raise_err |-> FALSE]
    /\ ret = "none"

\* lines 900-902
ProbeDefault ==
    /\ pc = "start"
    /\ ~wcs_configured
    /\ WCS' = "BareBonesWCS"
    /\ pc' = "probe"
    /\ UNCHANGED <<env, coord_types, wcs_configured, have_kapteyn, have_astlib,
                   have_starlink, have_astropy, bound, NUMPY_MODE, i, call, ret>>

\* the loop without its break: every candidate is tried
ProbeStepBodyNoBreak(r) ==
    /\ SetGlobals(r.g)
    /\ call' = [wcspkg |-> ProbeOrder[i], raise_err |-> FALSE]
    /\ ret' = r.ret
    /\ IF i < Len(ProbeOrder)
       THEN pc' = "probe" /\ i' = i + 1
       ELSE pc' = "loaded" /\ i' = i
    /\ UNCHANGED env

\* lines 905-907: one iteration of the loop
ProbeStepBody(r) ==
    /\ SetGlobals(r.g)
    /\ call' = [wcspkg |-> ProbeOrder[i], raise_err |-> FALSE]
    /\ ret' = r.ret
    /\ \/ /\ r.ret = "True"
          /\ pc' = "loaded"
          /\ i' = i
       \/ /\ r.ret # "True"
          /\ i < Len(ProbeOrder)
          /\ pc' = "probe"
          /\ i' = i + 1
       \/ /\ r.ret # "True"
          /\ i = Len(ProbeOrder)
          /\ pc' = "loaded"
          /\ i' = i
    /\ UNCHANGED env

ProbeStep ==
    /\ pc = "probe"
    /\ ProbeStepBody(use(Globals, ProbeOrder[i], FALSE, env))

\* a caller's use(wcspkg, raise_err) after the module has been imported
UseCall(wcspkg, raise_err) ==
    /\ pc \in {"loaded", "running"}
    /\ LET r == use(Globals, wcspkg, raise_err, env) IN
       /\ SetGlobals(r.g)
       /\ ret' = r.ret
    /\ call' = [wcspkg |-> wcspkg, raise_err |-> raise_err]
    /\ pc' = "running"
    /\ UNCHANGED <<env, i>>

----------------------------------------------------------------------------
(* Python str operations on sequences of characters.                       *)

Lowercase == <<"a","b","c","d","e","f","g","h","i","j","k","l","m",
               "n","o","p","q","r","s","t","u","v","w","x","y","z">>
Uppercase == <<"A","B","C","D","E","F","G","H","I","J","K","L","M",
               "N","O","P","Q","R","S","T","U","V","W","X","Y","Z">>

\* the vertical tab, chr(11), written as the character itself: the string
\* syntax has no escape for it
VerticalTab == ""

\* the characters str.strip() removes: space, tab, line feed, carriage
\* return, form feed and vertical tab
Whitespace == {" ", "\t", "\n", "\r", "\f", VerticalTab}

UpperChar(c) ==
    IF \E k \in 1..Len(Lowercase) : Lowercase[k] = c
    THEN Uppercase[CHOOSE k \in 1..Len(Lowercase) : Lowercase[k] = c]
    ELSE c

LowerChar(c) ==
    IF \E k \in 1..Len(Uppercase) : Uppercase[k] = c
    THEN Lowercase[CHOOSE k \in 1..Len(Uppercase) : Uppercase[k] = c]
    ELSE c

Upper(s) == [k \in 1..Len(s) |-> UpperChar(s[k])]
Lower(s) == [k \in 1..Len(s) |-> LowerChar(s[k])]

\* s from its first character that is no blank on, up to its last one
LStrip(s) ==
    IF \A k \in 1..Len(s) : s[k] \in Whitespace THEN <<>>
    ELSE SubSeq(s, CHOOSE k \in 1..Len(s) :
                      /\ s[k] \notin Whitespace
                      /\ \A j \in 1..(k - 1) : s[j] \in Whitespace,
                Len(s))

RStrip(s) ==
    IF \A k \in 1..Len(s) : s[k] \in Whitespace THEN <<>>
    ELSE SubSeq(s, 1, CHOOSE k \in 1..Len(s) :
                         /\ s[k] \notin Whitespace
                         /\ \A j \in (k + 1)..Len(s) : s[j] \in Whitespace)

Strip(s) == RStrip(LStrip(s))

\* re.match(r'^<prefix>.*$', s): the prefix, then characters other than a
\* line break up to the end of the string or to a line break that ends it
ReMatchPrefix(prefix, s) ==
    /\ Len(s) >= Len(prefix)
    /\ SubSeq(s, 1, Len(prefix)) = prefix
    /\ \A k \in (Len(prefix) + 1)..Len(s) : s[k] = "\n" => k = Len(s)

----------------------------------------------------------------------------
(* Header values and headers (Python dicts keyed by keyword).              *)

Str(s)  == [t |-> "str",  s |-> s,    n |-> 0, b |-> FALSE]
Num(n)  == [t |-> "num",  s |-> <<>>, n |-> n, b |-> FALSE]
Bool(b) == [t |-> "bool", s |-> <<>>, n |-> 0, b |-> b]
Absent  == [t |-> "absent", s |-> <<>>, n |-> 0, b |-> FALSE]

\* the dict holding the keys of `vals` (a function on keywords) that are
\* not Absent
Dict(vals) ==
    [k \in {x \in DOMAIN vals : vals[x] # Absent} |-> vals[k]]

\* what an operation returned (kind "ok": a value, "None": None) or the
\* exception it raised
Ok(tag)     == [kind |-> "ok", tag |-> tag, val |-> <<>>]
OkVal(v)    == [kind |-> "ok", tag |-> <<>>, val |-> v]
Raised(exc) == [kind |-> exc, tag |-> <<>>, val |-> <<>>]
RetNone     == [kind |-> "None", tag |-> <<>>, val |-> <<>>]
NoOut       == [kind |-> "none", tag |-> <<>>, val |-> <<>>]

----------------------------------------------------------------------------
(* The classifier: choose_coord_system and AstLibWCS.choose_coord_system.  *)

p_GLON == <<"G","L","O","N","-">>
p_ELON == <<"E","L","O","N","-">>
p_RA   == <<"R","A","-","-","-">>
s_FK4  == <<"F","K","4">>
s_FK5  == <<"F","K","5">>
s_ICRS == <<"I","C","R","S">>

\* lines 871-890 with the two keywords looked up in the other order
radecsys_of_swapped(hdr) ==
    IF "RADESYS" \in DOMAIN hdr THEN hdr["RADESYS"]
    ELSE IF "RADECSYS" \in DOMAIN hdr THEN hdr["RADECSYS"]
    ELSE IF "EQUINOX" \in DOMAIN hdr THEN Str(s_FK5)
    ELSE Str(s_ICRS)

\* lines 871-890: the value bound to radecsys
radecsys_of(hdr) ==
    IF "RADECSYS" \in DOMAIN hdr THEN hdr["RADECSYS"]
    ELSE IF "RADESYS" \in DOMAIN hdr THEN hdr["RADESYS"]
    ELSE IF "EQUINOX" \in DOMAIN hdr THEN Str(s_FK5)
    ELSE Str(s_ICRS)

choose_coord_system(hdr) ==
    IF "CTYPE1" \notin DOMAIN hdr THEN Ok(raw)
    ELSE IF hdr["CTYPE1"].t # "str" THEN Raised("AttributeError")
    ELSE LET ctype == Upper(Strip(hdr["CTYPE1"].s)) IN
         IF ReMatchPrefix(p_GLON, ctype) THEN Ok(galactic)
         ELSE IF ReMatchPrefix(p_ELON, ctype) THEN Ok(ecliptic)
         ELSE IF ReMatchPrefix(p_RA, ctype)
              THEN LET radecsys == radecsys_of(hdr) IN
                   IF radecsys.t # "str" THEN Raised("AttributeError")
                   ELSE Ok(Lower(Strip(radecsys.s)))
              ELSE Ok(icrs)

AstLibWCS_choose_coord_system(hdr) ==
    IF "CTYPE1" \notin DOMAIN hdr THEN Ok(raw)
    ELSE IF hdr["CTYPE1"].t # "str" THEN Raised("AttributeError")
    ELSE LET ctype == Upper(Strip(hdr["CTYPE1"].s)) IN
         IF ReMatchPrefix(p_GLON, ctype) THEN Ok(galactic)
         ELSE IF ReMatchPrefix(p_RA, ctype)
              THEN LET radecsys == radecsys_of(hdr) IN
                   IF radecsys.t # "str" THEN Raised("AttributeError")
                   ELSE IF Upper(Strip(radecsys.s)) = s_FK4 THEN Ok(b1950)
                   ELSE Ok(j2000)
              ELSE Ok(j2000)

----------------------------------------------------------------------------
(* The registry as a state machine: import of the module, then use() calls. *)

EngIdle ==
    /\ kind = "None"
    /\ header = <<>>
    /\ wcs = "None"
    /\ coordsys = raw
    /\ icrs_trans = FALSE
    /\ caller = <<>>
    /\ op = [name |-> "none", args |-> <<>>]
    /\ out = NoOut
    /\ logged = FALSE

RegNext ==
    \/ ProbeDefault /\ UNCHANGED engvars
    \/ ProbeStep /\ UNCHANGED engvars
    \/ \E n \in PackageNames, e \in BOOLEAN : UseCall(n, e) /\ UNCHANGED engvars

InitRegistry == RegInit /\ EngIdle

SpecRegistry == InitRegistry /\ [][RegNext]_vars

----------------------------------------------------------------------------
(* The engine classes.  A call into a native library is an input of the    *)
(* action: "ok" (it returns) or "raise" (it raises).                       *)

\* self.header = None
NoneHeader == [k \in {"None"} |-> Absent]
\* system=None
NoneSystem == <<"None">>

s_DEGREE == <<"D","E","G","R","E","E">>
s_deg    == <<"d","e","g">>

\* lines 156-159 (160-163 for CUNIT2): one unit keyword of fix_bad_headers
fix_unit(hdr, key) ==
    IF key \notin DOMAIN hdr THEN [hdr |-> hdr, raised |-> FALSE]
    ELSE IF hdr[key].t # "str" THEN [hdr |-> hdr, raised |-> TRUE]
    ELSE IF Upper(hdr[key].s) = s_DEGREE
         THEN [hdr |-> [hdr EXCEPT ![key] = Str(s_deg)], raised |-> FALSE]
         ELSE [hdr |-> hdr, raised |-> FALSE]

\* BaseWCS.fix_bad_headers on self.header = hdr: the header it leaves and
\* whether unit.upper() raised AttributeError
fix_bad_headers(hdr) ==
    LET first == fix_unit(hdr, "CUNIT1") IN
    IF first.raised THEN first ELSE fix_unit(first.hdr, "CUNIT2")

Engine == [header |-> header, wcs |-> wcs, coordsys |-> coordsys,
           icrs_trans |-> icrs_trans]

Variants == {"AstropyWCS", "AstLibWCS", "KapteynWCS", "StarlinkWCS",
             "BareBonesWCS"}

\* __init__ of each class: the attributes it sets
Constructed(cls) ==
    IF cls = "BareBonesWCS"
    THEN [header |-> <<>>, wcs |-> "unset", coordsys |-> raw,
          icrs_trans |-> FALSE]
    ELSE [header |-> NoneHeader, wcs |-> "None", coordsys |-> raw,
          icrs_trans |-> FALSE]

\* the have_* flag the constructor of cls tests
CanConstruct(cls) ==
    CASE cls = "AstropyWCS"  -> have_astropy
      [] cls = "AstLibWCS"   -> have_astlib
      [] cls = "KapteynWCS"  -> have_kapteyn
      [] cls = "StarlinkWCS" -> have_starlink
      [] OTHER               -> TRUE

\* the except clause of a native load_header
LoadFailed(e) ==
    [e |-> [e EXCEPT !.wcs = "None"], out |-> RetNone, logged |-> TRUE]

\* the try block of AstropyWCS / KapteynWCS load_header, reached with the
\* fixed private header in e.header; c is what the classifier answers
NativeTry(e, lib, c) ==
    IF lib = "raise" THEN LoadFailed(e)
    ELSE IF c.kind # "ok" THEN LoadFailed([e EXCEPT !.wcs = "object"])
    ELSE [e |-> [e EXCEPT !.wcs = "object", !.coordsys = c.tag],
          out |-> RetNone, logged |-> FALSE]

(* The mappings a load_header call works on are objects of a store mem, a  *)
(* sequence of mappings; a reference is a place in it.  The call is made   *)
(* with the store <<hdr>>: object 1 is the mapping the caller passes and   *)
(* goes on holding.                                                        *)

\* self.header = header: the engine holding the object it was passed
SharedReference(mem, href) == [mem |-> mem, ref |-> href]

\* self.header = {} and the loop over header.items() (lines 206-210): the
\* engine's header is a new object with the keys and values of object href
PrivateCopy(mem, href) ==
    [mem |-> Append(mem, [k \in DOMAIN mem[href] |-> mem[href][k]]),
     ref |-> Len(mem) + 1]

\* self.fix_bad_headers(): its writes go into the object self.header refers
\* to, c.ref; raised tells whether unit.upper() raised AttributeError
FixedIn(c) ==
    [mem |-> [c.mem EXCEPT ![c.ref] = fix_bad_headers(c.mem[c.ref]).hdr],
     ref |-> c.ref,
     raised |-> fix_bad_headers(c.mem[c.ref]).raised]

\* the first statements of every load_header, called with the mapping hdr
CopiedAndFixed(hdr) == FixedIn(PrivateCopy(<<hdr>>, 1))

\* what a load_header call leaves: r of the engine, the value returned or
\* raised and the log, and the caller's mapping as the store ld holds it
Left(r, ld) ==
    [e |-> r.e, out |-> r.out, logged |-> r.logged, caller |-> ld.mem[1]]

\* the copy of the caller's mapping and fix_bad_headers, then the try block
AstropyWCS_load_header(e, hdr, lib) ==
    LET ld == CopiedAndFixed(hdr)
        e1 == [e EXCEPT !.header = ld.mem[ld.ref]]
    IN IF ld.raised
       THEN Left([e |-> e1, out |-> Raised("AttributeError"),
                  logged |-> FALSE], ld)
       ELSE Left(NativeTry(e1, IF "pywcs" \in bound THEN lib ELSE "raise",
                           choose_coord_system(ld.mem[ld.ref])), ld)

AstLibWCS_load_header(e, hdr, lib) ==
    LET ld == CopiedAndFixed(hdr)
        e1 == [e EXCEPT !.header = ld.mem[ld.ref]]
    IN IF ld.raised
       THEN Left([e |-> e1, out |-> Raised("AttributeError"),
                  logged |-> FALSE], ld)
       ELSE Left(NativeTry(e1, IF "astWCS" \in bound THEN lib ELSE "raise",
                           AstLibWCS_choose_coord_system(ld.mem[ld.ref])), ld)

KapteynWCS_load_header(e, hdr, lib) ==
    LET ld == CopiedAndFixed(hdr)
        e1 == [e EXCEPT !.header = ld.mem[ld.ref]]
    IN IF ld.raised
       THEN Left([e |-> e1, out |-> Raised("AttributeError"),
                  logged |-> FALSE], ld)
       ELSE Left(NativeTry(e1, IF "kapwcs" \in bound THEN lib ELSE "raise",
                           choose_coord_system(ld.mem[ld.ref])), ld)

\* lib: "raise" (FitsChan or read raises), "raise_frame" (getframe, SkyFrame
\* or convert raises after the classification, which includes read having
\* returned None), "ok"
StarlinkWCS_load_header(e, hdr, lib) ==
    LET ld == CopiedAndFixed(hdr)
        e1 == [e EXCEPT !.header = ld.mem[ld.ref]]
        c == choose_coord_system(ld.mem[ld.ref])
    IN IF ld.raised
       THEN Left([e |-> e1, out |-> Raised("AttributeError"),
                  logged |-> FALSE], ld)
       ELSE IF lib = "raise" \/ "Ast" \notin bound
       THEN Left(LoadFailed(e1), ld)
       ELSE IF c.kind # "ok" THEN Left(LoadFailed(e1), ld)
       ELSE IF lib = "raise_frame"
            THEN Left(LoadFailed([e1 EXCEPT !.coordsys = c.tag]), ld)
       ELSE Left([e |-> [e1 EXCEPT !.wcs = "object", !.coordsys = c.tag,
                                   !.icrs_trans = TRUE],
                  out |-> RetNone, logged |-> FALSE], ld)

BareBonesWCS_load_header(e, hdr) ==
    LET ld == CopiedAndFixed(hdr)
        e1 == [e EXCEPT !.header = ld.mem[ld.ref]]
        c == choose_coord_system(ld.mem[ld.ref])
    IN IF ld.raised
       THEN Left([e |-> e1, out |-> Raised("AttributeError"),
                  logged |-> FALSE], ld)
       ELSE IF c.kind # "ok"
       THEN Left([e |-> e1, out |-> c, logged |-> FALSE], ld)
       ELSE Left([e |-> [e1 EXCEPT !.coordsys = c.tag],
                  out |-> RetNone, logged |-> FALSE], ld)

load_header(cls, e, hdr, lib) ==
    CASE cls = "AstropyWCS"  -> AstropyWCS_load_header(e, hdr, lib)
      [] cls = "AstLibWCS"   -> AstLibWCS_load_header(e, hdr, lib)
      [] cls = "KapteynWCS"  -> KapteynWCS_load_header(e, hdr, lib)
      [] cls = "StarlinkWCS" -> StarlinkWCS_load_header(e, hdr, lib)
      [] OTHER               -> BareBonesWCS_load_header(e, hdr)

\* pixtoradec of a native engine: the library call inside its try block
\* (self.wcs is None makes it raise), any exception re-raised as WCSError
NativePixtoradecRaises(e, lib) == e.wcs # "object" \/ lib = "raise"

\* keys of AstropyWCS.coord_table and of KapteynWCS.conv_d
AstropyCoordTable == {icrs, fk5, fk4, galactic}
KapteynConvD == {fk5, fk4, icrs, galactic, ecliptic}

\* AstropyWCS.pixtocoords / pixtosystem; out.tag is the system of the
\* coordinate returned
AstropyWCS_pixtosystem(e, system, libRadec, libConv) ==
    LET sys == IF system = NoneSystem THEN icrs ELSE system IN
    IF e.coordsys = raw THEN Raised("WCSError")
    ELSE IF NativePixtoradecRaises(e, libRadec) THEN Raised("WCSError")
    ELSE IF e.coordsys \notin AstropyCoordTable THEN Raised("WCSError")
    ELSE IF sys = e.coordsys THEN Ok(sys)
    ELSE IF sys \notin AstropyCoordTable THEN Raised("WCSError")
    ELSE IF libConv = "raise" THEN Raised("LibraryError")
    ELSE Ok(sys)

AstLibWCS_pixtosystem(e, system, libRadec, libConv) ==
    LET sys == IF system = NoneSystem THEN j2000 ELSE system IN
    IF e.coordsys = raw THEN Raised("WCSError")
    ELSE IF NativePixtoradecRaises(e, libRadec) THEN Raised("WCSError")
    ELSE IF libConv = "raise" THEN Raised("WCSError")
    ELSE Ok(sys)

KapteynWCS_pixtosystem(e, system, libRadec, libConv) ==
    LET sys == IF system = NoneSystem THEN icrs ELSE system IN
    IF e.coordsys = raw THEN Raised("WCSError")
    ELSE IF NativePixtoradecRaises(e, libRadec) THEN Raised("WCSError")
    ELSE IF sys \notin KapteynConvD THEN Raised("KeyError")
    ELSE IF libConv = "raise" THEN Raised("LibraryError")
    ELSE Ok(sys)

StarlinkWCS_pixtosystem(e, system, libRadec, libConv) ==
    LET sys == IF system = NoneSystem THEN icrs ELSE system IN
    IF e.coordsys = raw THEN Raised("WCSError")
    ELSE IF ~e.icrs_trans THEN Raised("AttributeError")
    ELSE IF libConv = "raise" THEN Raised("LibraryError")
    ELSE IF NativePixtoradecRaises(e, libRadec) THEN Raised("WCSError")
    ELSE Ok(sys)

\* BareBonesWCS.pixtocoords
BareBonesWCS_pixtocoords(e, system) == RetNone

pixtosystem(cls, e, system, libRadec, libConv) ==
    CASE cls = "AstropyWCS"  -> AstropyWCS_pixtosystem(e, system, libRadec, libConv)
      [] cls = "AstLibWCS"   -> AstLibWCS_pixtosystem(e, system, libRadec, libConv)
      [] cls = "KapteynWCS"  -> KapteynWCS_pixtosystem(e, system, libRadec, libConv)
      [] cls = "StarlinkWCS" -> StarlinkWCS_pixtosystem(e, system, libRadec, libConv)
      [] OTHER               -> BareBonesWCS_pixtocoords(e, system)

----------------------------------------------------------------------------
(* Python floats: IEEE 754 doubles, rounded to nearest (ties to even)      *)
(* after every operation as the hardware does.  A float is a record        *)
(*     [c |-> "num", neg |-> sign, m |-> mantissa, e |-> exponent]         *)
(* of value (-1)^neg * m * 2^e, where m is odd (or m = 0 and e = 0), or    *)
(* [c |-> "inf", neg |-> sign, ...] or [c |-> "nan", ...].  The mantissa   *)
(* is a natural number of any size: the sequence of its digits in radix    *)
(* Base, the lowest digit first, <<>> being 0.                             *)

Abs(n) == IF n < 0 THEN -n ELSE n
Max(a, b) == IF a < b THEN b ELSE a
Min(a, b) == IF a < b THEN a ELSE b

DigitBits == 15
Base == 32768

Zeros(k) == [j \in 1..k |-> 0]
Digit(a, j) == IF j <= Len(a) THEN a[j] ELSE 0

\* the digits without zeros at the high end
Trim(a) ==
    IF \E k \in 1..Len(a) : a[k] # 0
    THEN SubSeq(a, 1, CHOOSE k \in 1..Len(a) :
                         a[k] # 0 /\ \A j \in (k + 1)..Len(a) : a[j] = 0)
    ELSE <<>>

RECURSIVE NatOf(_)
NatOf(n) == IF n = 0 THEN <<>> ELSE <<n % Base>> \o NatOf(n \div Base)

\* the carry into digit j of a + b: 1 where a digit below j overflows and
\* every digit between the two passes a carry on
Carry(a, b, j) ==
    IF \E k \in 1..(j - 1) :
          /\ Digit(a, k) + Digit(b, k) >= Base
          /\ \A t \in (k + 1)..(j - 1) : Digit(a, t) + Digit(b, t) = Base - 1
    THEN 1 ELSE 0

NatAdd(a, b) ==
    Trim([j \in 1..(Max(Len(a), Len(b)) + 1) |->
            (Digit(a, j) + Digit(b, j) + Carry(a, b, j)) % Base])

\* the borrow from digit j of a - b
Borrow(a, b, j) ==
    IF \E k \in 1..(j - 1) :
          /\ a[k] < Digit(b, k)
          /\ \A t \in (k + 1)..(j - 1) : a[t] = Digit(b, t)
    THEN 1 ELSE 0

\* a - b for a >= b
NatSub(a, b) ==
    Trim([j \in 1..Len(a) |->
            (a[j] - Digit(b, j) - Borrow(a, b, j) + Base) % Base])

NatLess(a, b) ==
    IF Len(a) # Len(b) THEN Len(a) < Len(b)
    ELSE \E k \in 1..Len(a) :
            a[k] < b[k] /\ \A j \in (k + 1)..Len(a) : a[j] = b[j]

\* a * d for one digit d
NatMulDigit(a, d) ==
    NatAdd(Trim([j \in 1..Len(a) |-> (a[j] * d) % Base]),
           Trim(<<0>> \o [j \in 1..Len(a) |-> (a[j] * d) \div Base]))

\* a * b, b being split in halves until it is one digit
RECURSIVE NatMul(_, _)
NatMul(a, b) ==
    IF a = <<>> \/ b = <<>> THEN <<>>
    ELSE IF Len(b) = 1 THEN NatMulDigit(a, b[1])
    ELSE NatAdd(NatMul(a, Trim(SubSeq(b, 1, Len(b) \div 2))),
                Trim(Zeros(Len(b) \div 2)
                     \o NatMul(a, SubSeq(b, Len(b) \div 2 + 1, Len(b)))))

\* division by one digit d # 0 of the digits lo..hi of a, r < d being the
\* remainder of the digits above them: the digits of the quotient and the
\* remainder.  Zeros after a remainder of 0 divide to zeros; any other range
\* is split in halves until it is one digit.
RECURSIVE NatShortRange(_, _, _, _, _)
NatShortLower(a, d, lo, hi, upper) ==
    NatShortRange(a, d, lo, (lo + hi) \div 2, upper.r)
NatShortJoin(lower, upper) == [q |-> lower.q \o upper.q, r |-> lower.r]
NatShortUpper(a, d, lo, hi, upper) ==
    NatShortJoin(NatShortLower(a, d, lo, hi, upper), upper)
NatShortRange(a, d, lo, hi, r) ==
    IF r = 0 /\ \A j \in lo..hi : a[j] = 0
    THEN [q |-> Zeros(hi - lo + 1), r |-> 0]
    ELSE IF lo = hi
    THEN [q |-> <<(r * Base + a[lo]) \div d>>, r |-> (r * Base + a[lo]) % d]
    ELSE NatShortUpper(a, d, lo, hi,
                       NatShortRange(a, d, (lo + hi) \div 2 + 1, hi, r))

NatShortTrimmed(qr) == [q |-> Trim(qr.q), r |-> NatOf(qr.r)]
NatShort(a, d) ==
    IF a = <<>> THEN [q |-> <<>>, r |-> <<>>]
    ELSE NatShortTrimmed(NatShortRange(a, d, 1, Len(a), 0))

\* the largest digit t of lo..hi with t * b <= r
RECURSIVE QuotientDigit(_, _, _, _)
QuotientDigit(r, b, lo, hi) ==
    IF lo = hi THEN lo
    ELSE IF NatLess(r, NatMulDigit(b, (lo + hi + 1) \div 2))
         THEN QuotientDigit(r, b, lo, (lo + hi + 1) \div 2 - 1)
         ELSE QuotientDigit(r, b, (lo + hi + 1) \div 2, hi)

\* long division by b # 0 of the digits lo..hi of a, r < b being the
\* remainder of the digits above them, in the same way
RECURSIVE NatLongRange(_, _, _, _, _)
NatLongPut(r, b, t) == [q |-> <<t>>, r |-> NatSub(r, NatMulDigit(b, t))]
NatLongDigit(r, b) ==
    IF NatLess(r, b) THEN [q |-> <<0>>, r |-> r]
    ELSE NatLongPut(r, b, QuotientDigit(r, b, 1, Base - 1))
NatLongLower(a, b, lo, hi, upper) ==
    NatLongRange(a, b, lo, (lo + hi) \div 2, upper.r)
NatLongJoin(lower, upper) == [q |-> lower.q \o upper.q, r |-> lower.r]
NatLongUpper(a, b, lo, hi, upper) ==
    NatLongJoin(NatLongLower(a, b, lo, hi, upper), upper)
NatLongRange(a, b, lo, hi, r) ==
    IF r = <<>> /\ \A j \in lo..hi : a[j] = 0
    THEN [q |-> Zeros(hi - lo + 1), r |-> <<>>]
    ELSE IF lo = hi THEN NatLongDigit(Trim(<<a[lo]>> \o r), b)
    ELSE NatLongUpper(a, b, lo, hi,
                      NatLongRange(a, b, (lo + hi) \div 2 + 1, hi, r))

NatLongTrimmed(qr) == [q |-> Trim(qr.q), r |-> qr.r]
NatLong(a, b) ==
    IF a = <<>> THEN [q |-> <<>>, r |-> <<>>]
    ELSE NatLongTrimmed(NatLongRange(a, b, 1, Len(a), <<>>))

\* the quotient and the remainder of a by b # 0
NatDivMod(a, b) == IF Len(b) = 1 THEN NatShort(a, b[1]) ELSE NatLong(a, b)

\* 10^k
RECURSIVE NatPow10(_)
NatPow10(k) ==
    IF k <= 4 THEN <<10^k>>
    ELSE NatMul(NatPow10(k - k \div 2), NatPow10(k \div 2))

\* the number of bits of a digit, and of a natural
RECURSIVE DigitLen(_)
DigitLen(d) == IF d = 0 THEN 0 ELSE 1 + DigitLen(d \div 2)

BitLen(a) ==
    IF a = <<>> THEN 0 ELSE DigitBits * (Len(a) - 1) + DigitLen(a[Len(a)])

\* a * 2^s
ShiftLeft(a, s) ==
    IF a = <<>> THEN a
    ELSE Zeros(s \div DigitBits) \o NatMulDigit(a, 2^(s % DigitBits))

\* a without its k lowest digits
HighDigits(a, k) == IF k >= Len(a) THEN <<>> ELSE SubSeq(a, k + 1, Len(a))

\* a \div 2^s
ShiftRight(a, s) ==
    NatShort(HighDigits(a, s \div DigitBits), 2^(s % DigitBits)).q

\* whether one of the s lowest bits of a is set
LowBitsSet(a, s) ==
    \/ \E j \in 1..Min(s \div DigitBits, Len(a)) : a[j] # 0
    \/ NatShort(HighDigits(a, s \div DigitBits), 2^(s % DigitBits)).r # <<>>

\* bit k of a, bit 0 being the lowest
Bit(a, k) ==
    IF k \div DigitBits >= Len(a) THEN 0
    ELSE (a[k \div DigitBits + 1] \div 2^(k % DigitBits)) % 2

\* the number of zero bits at the low end of a digit d # 0, of a natural a # 0
RECURSIVE LowZeros(_)
LowZeros(d) == IF d % 2 = 1 THEN 0 ELSE 1 + LowZeros(d \div 2)

RECURSIVE TrailingZeros(_)
TrailingZeros(a) ==
    IF a[1] = 0 THEN DigitBits + TrailingZeros(Tail(a)) ELSE LowZeros(a[1])

Zero(neg) == [c |-> "num", neg |-> neg, m |-> <<>>, e |-> 0]
Inf(neg) == [c |-> "inf", neg |-> neg, m |-> <<>>, e |-> 0]
NaN == [c |-> "nan", neg |-> FALSE, m |-> <<>>, e |-> 0]

IsZero(a) == a.c = "num" /\ a.m = <<>>

\* m * 2^e for m of at most 53 bits and e >= -1074: the float of that value,
\* or inf from 2^1024 on
Odd(neg, m, e, tz) ==
    [c |-> "num", neg |-> neg, m |-> ShiftRight(m, tz), e |-> e + tz]

Canonical(neg, m, e) ==
    IF m = <<>> THEN Zero(neg)
    ELSE IF BitLen(m) + e > 1024 THEN Inf(neg)
    ELSE Odd(neg, m, e, TrailingZeros(m))

\* q, or q + 1 where the dropped bits (the highest of them, half, and whether
\* any bit lies below it, rest) round up: to nearest, ties to even
RoundUp(q, half, rest) ==
    IF half = 1 /\ (rest \/ Digit(q, 1) % 2 = 1) THEN NatAdd(q, <<1>>) ELSE q

Dropped(neg, m, e, sticky, s) ==
    IF s = 0 THEN Canonical(neg, m, e)
    ELSE Canonical(neg,
                   RoundUp(ShiftRight(m, s), Bit(m, s - 1),
                           sticky \/ LowBitsSet(m, s - 1)),
                   e + s)

\* the double nearest to m * 2^e, or to a value strictly between m * 2^e and
\* (m + 1) * 2^e when sticky (m then has 55 bits or more): 53 bits are kept,
\* fewer below 2^-1022, where the lowest bit is 2^-1074
Rounded(neg, m, e, sticky) ==
    Dropped(neg, m, e, sticky, Max(0, Max(BitLen(m) - 53, (-1074) - e)))

\* the double nearest to (n / d) * 2^e for naturals n # 0 and d # 0
QuotientRounded(neg, dm, e) == Rounded(neg, dm.q, e, dm.r # <<>>)
Scaled(neg, n, d, e, k) ==
    QuotientRounded(neg, NatDivMod(ShiftLeft(n, k), d), e - k)
RoundQuot(neg, n, d, e) ==
    Scaled(neg, n, d, e, Max(0, 56 + BitLen(d) - BitLen(n)))

\* float(n) for an int n
F(n) == Canonical(n < 0, NatOf(Abs(n)), 0)

FNeg(a) == IF a.c = "nan" THEN a ELSE [a EXCEPT !.neg = ~a.neg]

\* a + b for aligned mantissas am, bm of exponent e
Sum(aneg, am, bneg, bm, e) ==
    IF aneg = bneg THEN Rounded(aneg, NatAdd(am, bm), e, FALSE)
    ELSE IF am = bm THEN Zero(FALSE)
    ELSE IF NatLess(am, bm) THEN Rounded(bneg, NatSub(bm, am), e, FALSE)
    ELSE Rounded(aneg, NatSub(am, bm), e, FALSE)

FAdd(a, b) ==
    IF a.c = "nan" \/ b.c = "nan" THEN NaN
    ELSE IF a.c = "inf"
         THEN (IF b.c = "inf" /\ a.neg # b.neg THEN NaN ELSE a)
    ELSE IF b.c = "inf" THEN b
    ELSE IF IsZero(a) /\ IsZero(b) THEN Zero(a.neg /\ b.neg)
    ELSE IF IsZero(a) THEN b
    ELSE IF IsZero(b) THEN a
    ELSE Sum(a.neg, ShiftLeft(a.m, a.e - Min(a.e, b.e)),
             b.neg, ShiftLeft(b.m, b.e - Min(a.e, b.e)), Min(a.e, b.e))

FSub(a, b) == FAdd(a, FNeg(b))

FMul(a, b) ==
    IF a.c = "nan" \/ b.c = "nan" THEN NaN
    ELSE IF a.c = "inf" \/ b.c = "inf"
         THEN (IF IsZero(a) \/ IsZero(b) THEN NaN ELSE Inf(a.neg # b.neg))
    ELSE Rounded(a.neg # b.neg, NatMul(a.m, b.m), a.e + b.e, FALSE)

\* a / b for b # 0 (Python raises ZeroDivisionError for b = 0; the divisors of
\* the code are a cosine of a declination, never 0 as a double, and a
\* determinant tested against 0 beforehand)
FDiv(a, b) ==
    IF a.c = "nan" \/ b.c = "nan" THEN NaN
    ELSE IF a.c = "inf"
         THEN (IF b.c = "inf" THEN NaN ELSE Inf(a.neg # b.neg))
    ELSE IF b.c = "inf" \/ IsZero(a) THEN Zero(a.neg # b.neg)
    ELSE RoundQuot(a.neg # b.neg, a.m, b.m, a.e - b.e)

\* |a| < |b| for two floats that are numbers or inf
MagLess(a, b) ==
    IF a.c = "inf" THEN FALSE
    ELSE IF b.c = "inf" THEN TRUE
    ELSE IF IsZero(b) THEN FALSE
    ELSE IF IsZero(a) THEN TRUE
    ELSE IF BitLen(a.m) + a.e # BitLen(b.m) + b.e
         THEN BitLen(a.m) + a.e < BitLen(b.m) + b.e
    ELSE NatLess(ShiftLeft(a.m, a.e - Min(a.e, b.e)),
                 ShiftLeft(b.m, b.e - Min(a.e, b.e)))

FLess(a, b) ==
    IF a.c = "nan" \/ b.c = "nan" THEN FALSE
    ELSE IF IsZero(a) /\ IsZero(b) THEN FALSE
    ELSE IF a.neg # b.neg THEN a.neg
    ELSE IF a.neg THEN MagLess(b, a)
    ELSE MagLess(a, b)

FEq(a, b) ==
    /\ a.c # "nan"
    /\ b.c # "nan"
    /\ (a = b \/ (IsZero(a) /\ IsZero(b)))

FLeq(a, b) == FLess(a, b) \/ FEq(a, b)

----------------------------------------------------------------------------
(* BareBonesWCS: the keyword getters and the two transforms.               *)

Digits == <<"0","1","2","3","4","5","6","7","8","9">>
IsDigit(c) == \E k \in 1..Len(Digits) : Digits[k] = c
DigitValue(c) == (CHOOSE k \in 1..Len(Digits) : Digits[k] = c) - 1
AllDigits(s) == \A k \in 1..Len(s) : IsDigit(s[k])

\* a digit string without its leading zeros
Significant(s) ==
    IF \A k \in 1..Len(s) : s[k] = "0" THEN <<>>
    ELSE SubSeq(s, CHOOSE k \in 1..Len(s) :
                      s[k] # "0" /\ \A j \in 1..(k - 1) : s[j] = "0",
                Len(s))

\* the value of a digit string as a natural of any size, the string being
\* split in halves until it is one digit
RECURSIVE DecimalNat(_)
DecimalNat(s) ==
    IF s = <<>> THEN <<>>
    ELSE IF Len(s) = 1 THEN NatOf(DigitValue(s[1]))
    ELSE NatAdd(NatMul(DecimalNat(SubSeq(s, 1, Len(s) \div 2)),
                       NatPow10(Len(s) - Len(s) \div 2)),
                DecimalNat(SubSeq(s, Len(s) \div 2 + 1, Len(s))))

\* the largest exponent float() reads: MAX_ABS_EXP of CPython's dtoa.c
MAX_ABS_EXP == 1100000000

\* the value of a digit string of at most 9 digits
RECURSIVE DecimalInt(_)
DecimalInt(s) ==
    IF s = <<>> THEN 0
    ELSE 10 * DecimalInt(SubSeq(s, 1, Len(s) - 1)) + DigitValue(s[Len(s)])

\* the value float() takes for the digits of an exponent, leading zeros
\* dropped: the number written, and MAX_ABS_EXP for more than 9 digits or a
\* number above MAX_ABS_EXP
DecimalValue(s) ==
    IF Len(s) > 9 THEN MAX_ABS_EXP ELSE Min(DecimalInt(s), MAX_ABS_EXP)

Floated(q)    == [kind |-> "ok", q |-> q]
NotFloated(e) == [kind |-> e, q |-> Zero(FALSE)]

\* a numeral after its sign
Unsigned(t) == IF t # <<>> /\ Head(t) \in {"-", "+"} THEN Tail(t) ELSE t
Negative(t) == t # <<>> /\ Head(t) = "-"

\* the place of the first character of s that is in cs, 0 if there is none
IndexOf(s, cs) ==
    IF \E k \in 1..Len(s) : s[k] \in cs
    THEN CHOOSE k \in 1..Len(s) :
            s[k] \in cs /\ \A j \in 1..(k - 1) : s[j] \notin cs
    ELSE 0

\* s before place k and after it, all of s and nothing for k = 0
Before(s, k) == IF k = 0 THEN s ELSE SubSeq(s, 1, k - 1)
After(s, k) == IF k = 0 THEN <<>> ELSE SubSeq(s, k + 1, Len(s))

\* the parts of an unsigned decimal numeral: digits [. digits] [e [sign] digits]
MantissaPart(u) == Before(u, IndexOf(u, {"e", "E"}))
ExponentPart(u) == After(u, IndexOf(u, {"e", "E"}))
IntegerPart(u)  == Before(MantissaPart(u), IndexOf(MantissaPart(u), {"."}))
FractionPart(u) == After(MantissaPart(u), IndexOf(MantissaPart(u), {"."}))

IsDecimal(u) ==
    /\ AllDigits(IntegerPart(u))
    /\ AllDigits(FractionPart(u))
    /\ IntegerPart(u) \o FractionPart(u) # <<>>
    /\ \/ IndexOf(u, {"e", "E"}) = 0
       \/ /\ Unsigned(ExponentPart(u)) # <<>>
          /\ AllDigits(Unsigned(ExponentPart(u)))

\* the exponent written in u, 0 if none is
Exponent(u) ==
    IF Negative(ExponentPart(u))
    THEN -DecimalValue(Significant(Unsigned(ExponentPart(u))))
    ELSE DecimalValue(Significant(Unsigned(ExponentPart(u))))

\* the double nearest to d * 10^x, d being the value of the digit string ds
\* (no leading zeros): inf from 10^309 on, 0 below 10^-324 and for d = 0
FromDecimal(neg, ds, x) ==
    IF ds = <<>> THEN Zero(neg)
    ELSE IF x + Len(ds) > 310 THEN Inf(neg)
    ELSE IF x + Len(ds) < -324 THEN Zero(neg)
    ELSE IF x >= 0 THEN Rounded(neg, NatMul(DecimalNat(ds), NatPow10(x)), 0, FALSE)
    ELSE RoundQuot(neg, DecimalNat(ds), NatPow10(-x), 0)

\* float(t) for a str t without blanks around it: [sign] inf, infinity or nan
\* in any case, or [sign] decimal numeral; anything else is a ValueError
ParseUnsigned(neg, u) ==
    IF Lower(u) \in {<<"i","n","f">>, <<"i","n","f","i","n","i","t","y">>}
    THEN Floated(Inf(neg))
    ELSE IF Lower(u) = <<"n","a","n">> THEN Floated(NaN)
    ELSE IF IsDecimal(u)
    THEN Floated(FromDecimal(neg,
                             Significant(IntegerPart(u) \o FractionPart(u)),
                             Exponent(u) - Len(FractionPart(u))))
    ELSE NotFloated("ValueError")

ParseStripped(t) == ParseUnsigned(Negative(t), Unsigned(t))

\* float(s) for a str s: the blanks around the numeral are dropped
ParseFloat(s) == ParseStripped(Strip(s))

\* math.pi
Pi == ParseFloat(<<"3",".","1","4","1","5","9","2","6","5","3","5","8","9","7","9","3">>).q

\* degToRad of mathmodule.c: Py_MATH_PI / 180.0
DegToRad == FDiv(Pi, F(180))

\* math.radians(x)
Radians(x) == FMul(x, DegToRad)

\* the double whose IEEE 754 encoding is the four 16-bit words of w, the
\* highest first: a sign bit, 11 bits of exponent, 52 bits of fraction
BitsExponent(w) == (w[1] % 32768) \div 16
BitsFraction(w) ==
    NatAdd(ShiftLeft(NatOf((w[1] % 16) * 65536 + w[2]), 32),
           NatAdd(ShiftLeft(NatOf(w[3]), 16), NatOf(w[4])))
FromBits(w) ==
    IF BitsExponent(w) = 2047
    THEN (IF BitsFraction(w) = <<>> THEN Inf(w[1] >= 32768) ELSE NaN)
    ELSE IF BitsExponent(w) = 0
    THEN Canonical(w[1] >= 32768, BitsFraction(w), -1074)
    ELSE Canonical(w[1] >= 32768,
                   NatAdd(ShiftLeft(<<1>>, 52), BitsFraction(w)),
                   BitsExponent(w) - 1075)

FAbs(a) == IF a.c = "nan" THEN a ELSE [a EXCEPT !.neg = FALSE]
CopySign(a, b) == IF a.c = "nan" THEN a ELSE [a EXCEPT !.neg = b.neg]

\* a * b + c rounded once (the fused multiply-add of the processor)
FMASum(neg, m, e, c) ==
    Sum(neg, ShiftLeft(m, e - Min(e, c.e)),
        c.neg, ShiftLeft(c.m, c.e - Min(e, c.e)), Min(e, c.e))
FMA(a, b, c) ==
    IF a.c # "num" \/ b.c # "num" \/ c.c # "num" \/ IsZero(a) \/ IsZero(b)
    THEN FAdd(FMul(a, b), c)
    ELSE IF IsZero(c) THEN FMul(a, b)
    ELSE FMASum(a.neg # b.neg, NatMul(a.m, b.m), a.e + b.e, c)

(* math.cos is the cos of the C library, computed here as glibc 2.36       *)
(* computes it on x86-64 processors that have the fused multiply-add       *)
(* (sysdeps/ieee754/dbl-64/s_sin.c built as __cos_fma): the argument is    *)
(* split into a multiple of 1/128, whose sine and cosine are read from a   *)
(* table, and a rest, whose sine and cosine are polynomials.  Where the    *)
(* source writes a * b + c the build computes FMA(a, b, c).  The result is *)
(* within one unit of the last place of the cosine, not always the double  *)
(* nearest to it.                                                          *)

\* __sincostab: sin(n/128) and cos(n/128), each as a double and the double
\* of what it leaves, for n = 0..109, as the words of their encodings
sincostab == <<
    <<<<0, 0, 0, 0>>, <<0, 0, 0, 0>>, <<16368, 0, 0, 0>>, <<0, 0, 0, 0>>>>,
    <<<<16255, 65514, 43694, 61167>>, <<48158, 17890, 60519, 46972>>, <<16367, 65472, 21, 21842>>, <<15503, 18945, 40985, 28078>>>>,
    <<<<16271, 65450, 43758, 61141>>, <<48130, 43875, 39583, 1911>>, <<16367, 65280, 341, 21663>>, <<15490, 35368, 41018, 24307>>>>,
    <<<<16279, 65392, 259, 12885>>, <<15358, 65067, 20818, 29494>>, <<16367, 64960, 1727, 63462>>, <<15498, 59098, 59497, 30653>>>>,
    <<<<16287, 65194, 44782, 59503>>, <<48188, 54278, 64290, 19170>>, <<16367, 64512, 5461, 10195>>, <<48259, 46404, 37592, 39771>>>>,
    <<<<16291, 65202, 45357, 17877>>, <<15412, 60500, 8253, 7185>>, <<16367, 63936, 13332, 42938>>, <<15465, 37364, 48748, 22975>>>>,
    <<<<16295, 64960, 4146, 64425>>, <<48197, 39357, 62574, 39290>>, <<16367, 63232, 27645, 63903>>, <<48248, 46005, 24676, 36191>>>>,
    <<<<16299, 64621, 30808, 28076>>, <<15384, 58621, 987, 62006>>, <<16367, 62400, 51216, 14897>>, <<15476, 34157, 48604, 3686>>>>,
    <<<<16303, 64170, 61165, 20187>>, <<48194, 53613, 12904, 19305>>, <<16367, 61441, 21833, 62675>>, <<15491, 10296, 31641, 17007>>>>,
    <<<<16305, 64564, 15744, 35823>>, <<48223, 15666, 59123, 48719>>, <<16367, 60354, 8872, 61343>>, <<15447, 37705, 13557, 19575>>>>,
    <<<<16307, 64203, 4817, 30043>>, <<48217, 8593, 21145, 18060>>, <<16367, 59139, 16681, 61295>>, <<48236, 48963, 14281, 28567>>>>,
    <<<<16309, 63761, 64784, 46903>>, <<48208, 6223, 702, 37122>>, <<16367, 57796, 50120, 29675>>, <<48181, 43465, 1404, 18946>>>>,
    <<<<16311, 63233, 805, 20708>>, <<15418, 64557, 6144, 20506>>, <<16367, 56326, 49022, 27547>>, <<15491, 6402, 46389, 63707>>>>,
    <<<<16313, 62608, 11605, 53753>>, <<15442, 26989, 32428, 7617>>, <<16367, 54729, 19267, 57344>>, <<48226, 59240, 52047, 37625>>>>,
    <<<<16315, 61879, 34152, 14621>>, <<15454, 37252, 7658, 19656>>, <<16367, 53004, 32782, 39345>>, <<15470, 41943, 34513, 34476>>>>,
    <<<<16317, 61039, 5825, 52454>>, <<48197, 3982, 12215, 5747>>, <<16367, 51152, 30929, 48264>>, <<15488, 30162, 17533, 46725>>>>,
    <<<<16319, 60078, 61062, 60982>>, <<48202, 64690, 48326, 61499>>, <<16367, 49173, 21117, 23507>>, <<15499, 26867, 20628, 61368>>>>,
    <<<<16320, 62263, 36317, 29137>>, <<15469, 33896, 29263, 3998>>, <<16367, 47067, 11262, 1685>>, <<15490, 7597, 62710, 23217>>>>,
    <<<<16321, 61651, 55215, 52911>>, <<48230, 61333, 2455, 27045>>, <<16367, 44834, 9788, 19411>>, <<48213, 10958, 4922, 10089>>>>,
    <<<<16322, 60968, 24138, 47247>>, <<48238, 19727, 1502, 57432>>, <<16367, 42474, 25628, 14066>>, <<15424, 19878, 60695, 52348>>>>,
    <<<<16323, 60209, 11357, 26315>>, <<15460, 32102, 27494, 52113>>, <<16367, 39988, 2684, 50216>>, <<15500, 23403, 1595, 29794>>>>,
    <<<<16324, 59370, 19909, 62075>>, <<15449, 18907, 10944, 29436>>, <<16367, 37375, 16439, 19713>>, <<48231, 53311, 19770, 40524>>>>,
    <<<<16325, 58447, 53153, 9971>>, <<48230, 62531, 1599, 35254>>, <<16367, 34636, 11806, 60662>>, <<48268, 25876, 57651, 11030>>>>,
    <<<<16326, 57437, 49242, 19788>>, <<48083, 11356, 35713, 51520>>, <<16367, 31770, 65279, 56868>>, <<48248, 62811, 50293, 16561>>>>,
    <<<<16327, 56336, 12218, 62133>>, <<15429, 43856, 57916, 38851>>, <<16367, 28779, 57246, 52764>>, <<48262, 39112, 3126, 56500>>>>,
    <<<<16328, 55139, 12026, 43332>>, <<48226, 4002, 25291, 47443>>, <<16367, 25662, 65208, 10957>>, <<15478, 45066, 49662, 10412>>>>,
    <<<<16329, 53842, 53454, 49938>>, <<15449, 50237, 32945, 4989>>, <<16367, 22420, 36095, 26519>>, <<15470, 14861, 15875, 45525>>>>,
    <<<<16330, 52443, 10618, 1893>>, <<48217, 34875, 22486, 52715>>, <<16367, 19052, 48414, 14969>>, <<15489, 15856, 60846, 47959>>>>,
    <<<<16331, 50936, 20188, 24985>>, <<15465, 49573, 27259, 3243>>, <<16367, 15559, 50099, 53614>>, <<48226, 6714, 53898, 13460>>>>,
    <<<<16332, 49318, 22658, 35235>>, <<48232, 26832, 39880, 31851>>, <<16367, 11941, 55123, 65517>>, <<15500, 50209, 24406, 54659>>>>,
    <<<<16333, 47585, 24501, 42448>>, <<48227, 11808, 54988, 28610>>, <<16367, 8199, 12422, 25759>>, <<15483, 37892, 5825, 38987>>>>,
    <<<<16334, 45733, 32650, 58787>>, <<48224, 48646, 44887, 11499>>, <<16367, 4332, 2501, 34619>>, <<15501, 36978, 30252, 4739>>>>,
    <<<<16335, 43758, 54515, 5495>>, <<48225, 23944, 20622, 12984>>, <<16367, 340, 40829, 61089>>, <<15501, 15390, 39397, 51965>>>>,
    <<<<16336, 20828, 48997, 5468>>, <<48249, 47298, 40445, 36552>>, <<16366, 61761, 12301, 12070>>, <<48258, 43547, 2270, 54130>>>>,
    <<<<16336, 52480, 52979, 25654>>, <<48249, 64266, 3219, 58037>>, <<16366, 57521, 64448, 61724>>, <<48203, 64803, 32955, 50097>>>>,
    <<<<16337, 18529, 43668, 56811>>, <<48235, 59521, 46518, 5540>>, <<16366, 53159, 17621, 61345>>, <<48213, 27914, 19189, 16848>>>>,
    <<<<16337, 50045, 25798, 47222>>, <<15476, 24694, 65037, 53237>>, <<16366, 48673, 20342, 61352>>, <<48256, 12191, 4794, 21566>>>>,
    <<<<16338, 15954, 4378, 44854>>, <<48244, 61568, 13134, 65304>>, <<16366, 44064, 25019, 44879>>, <<15458, 49621, 16020, 25997>>>>,
    <<<<16338, 47325, 50238, 46239>>, <<15457, 21816, 39410, 55303>>, <<16366, 39332, 50087, 52611>>, <<48258, 9803, 7109, 15592>>>>,
    <<<<16339, 13086, 37892, 40839>>, <<15486, 3254, 46092, 12332>>, <<16366, 34478, 48937, 43501>>, <<15497, 14714, 64955, 22695>>>>,
    <<<<16339, 44306, 38761, 54232>>, <<15360, 15701, 1159, 33688>>, <<16366, 29502, 40985, 15680>>, <<48262, 17035, 13638, 52755>>>>,
    <<<<16340, 9911, 59038, 59031>>, <<48255, 2503, 22277, 50591>>, <<16366, 24404, 46134, 59856>>, <<15495, 60175, 53295, 51388>>>>,
    <<<<16340, 40972, 39695, 15648>>, <<15480, 9146, 27568, 36525>>, <<16366, 19185, 19242, 17564>>, <<48262, 36000, 11914, 26675>>>>,
    <<<<16341, 6414, 53096, 42874>>, <<15483, 13681, 21998, 61683>>, <<16366, 13844, 46720, 54949>>, <<48242, 30611, 43521, 21047>>>>,
    <<<<16341, 37308, 40866, 62871>>, <<15463, 51019, 44095, 57547>>, <<16366, 8383, 18860, 54977>>, <<48214, 24750, 51183, 25452>>>>,
    <<<<16342, 2580, 10503, 34677>>, <<15451, 8152, 2984, 37171>>, <<16366, 2801, 23043, 56270>>, <<15455, 59623, 631, 6886>>>>,
    <<<<16342, 33299, 35384, 55287>>, <<48253, 34962, 580, 19117>>, <<16365, 62635, 16061, 34654>>, <<48270, 11658, 32359, 14020>>>>,
    <<<<16342, 63928, 58170, 597>>, <<15476, 11201, 20201, 55821>>, <<16365, 56813, 20722, 10454>>, <<48238, 32968, 54315, 41663>>>>,
    <<<<16343, 28930, 21878, 16916>>, <<48230, 60119, 12619, 46798>>, <<16365, 50871, 60313, 22802>>, <<15444, 45924, 30573, 52533>>>>,
    <<<<16343, 59374, 968, 27982>>, <<48251, 25532, 55999, 23282>>, <<16365, 44811, 27528, 36483>>, <<15498, 9374, 11102, 23786>>>>,
    <<<<16344, 24186, 4738, 26953>>, <<15480, 41998, 39775, 44256>>, <<16365, 38632, 12145, 43484>>, <<15503, 63003, 54738, 925>>>>,
    <<<<16344, 54436, 42868, 39215>>, <<15476, 18946, 60022, 25382>>, <<16365, 32334, 38881, 31562>>, <<48227, 46960, 13611, 60820>>>>,
    <<<<16345, 19051, 59893, 18117>>, <<48246, 40161, 15976, 16216>>, <<16365, 25919, 1854, 16448>>, <<48263, 25142, 17227, 60471>>>>,
    <<<<16345, 49102, 744, 1296>>, <<15472, 40505, 41760, 45220>>, <<16365, 19385, 57798, 6624>>, <<15503, 13499, 30597, 36705>>>>,
    <<<<16346, 13513, 7365, 3274>>, <<48218, 12558, 15184, 52941>>, <<16365, 12735, 36237, 31750>>, <<15486, 24797, 12425, 52189>>>>,
    <<<<16346, 43355, 25504, 37495>>, <<48230, 10558, 45372, 897>>, <<16365, 5968, 29309, 38128>>, <<15488, 54571, 7873, 42126>>>>,
    <<<<16347, 7555, 1330, 5655>>, <<48250, 57922, 52121, 62745>>, <<16364, 64620, 64082, 44447>>, <<15496, 46517, 20623, 10765>>>>,
    <<<<16347, 37182, 12507, 44099>>, <<48254, 14509, 12140, 16369>>, <<16364, 57621, 37018, 33509>>, <<15489, 61753, 47921, 4250>>>>,
    <<<<16348, 1163, 6065, 16547>>, <<15457, 40934, 30078, 40871>>, <<16364, 50506, 41650, 38702>>, <<15460, 60950, 11176, 15000>>>>,
    <<<<16348, 30567, 60543, 53662>>, <<48222, 45389, 6717, 22566>>, <<16364, 43276, 40902, 32011>>, <<48228, 27265, 18526, 13410>>>>,
    <<<<16348, 59858, 58324, 42271>>, <<48226, 64650, 4826, 58008>>, <<16364, 35931, 63694, 6788>>, <<15482, 46033, 41305, 291>>>>,
    <<<<16349, 23498, 13316, 30305>>, <<15474, 35396, 42847, 49820>>, <<16364, 28473, 8331, 58683>>, <<48263, 16859, 64426, 56130>>>>,
    <<<<16349, 52556, 5426, 40090>>, <<15472, 54470, 57713, 64922>>, <<16364, 20900, 35723, 5982>>, <<48225, 48052, 15258, 43136>>>>,
    <<<<16350, 15958, 49496, 10857>>, <<48208, 42114, 4249, 63631>>, <<16364, 13214, 45085, 56705>>, <<48268, 43765, 61058, 50624>>>>,
    <<<<16350, 44776, 29771, 1520>>, <<48215, 35252, 15515, 637>>, <<16364, 5416, 1627, 32080>>, <<48264, 37393, 4882, 59432>>>>,
    <<<<16351, 7935, 27588, 63867>>, <<15473, 29202, 63655, 21084>>, <<16363, 63041, 2078, 30006>>, <<15499, 31703, 5672, 43425>>>>,
    <<<<16351, 36505, 59242, 48279>>, <<15449, 55632, 44845, 163>>, <<16363, 55018, 12546, 38133>>, <<15475, 7100, 51340, 4253>>>>,
    <<<<16351, 64950, 10450, 62842>>, <<15471, 19097, 11920, 23402>>, <<16363, 46883, 65123, 3890>>, <<15479, 11218, 17709, 2617>>>>,
    <<<<16352, 13865, 14790, 39253>>, <<48258, 55501, 30777, 31489>>, <<16363, 38638, 61272, 33806>>, <<15444, 23100, 51087, 44512>>>>,
    <<<<16352, 27958, 34452, 28251>>, <<15491, 62894, 17720, 65307>>, <<16363, 30283, 33975, 1218>>, <<48271, 22600, 49691, 14491>>>>,
    <<<<16352, 41986, 7838, 4097>>, <<48262, 63043, 41273, 5366>>, <<16363, 21818, 16652, 4174>>, <<15448, 65401, 18178, 31254>>>>,
    <<<<16352, 55947, 9909, 26414>>, <<48266, 22750, 61630, 59657>>, <<16363, 13243, 43164, 35144>>, <<15502, 42661, 7455, 27817>>>>,
    <<<<16353, 4304, 50358, 39995>>, <<15501, 37257, 39040, 39297>>, <<16363, 4560, 16738, 42182>>, <<15473, 56662, 7931, 49346>>>>,
    <<<<16353, 18130, 8075, 32642>>, <<15483, 63827, 24103, 14760>>, <<16362, 61304, 37643, 53877>>, <<48255, 33634, 31092, 28564>>>>,
    <<<<16353, 31886, 24366, 60848>>, <<15459, 24151, 4142, 9352>>, <<16362, 52405, 9974, 40421>>, <<15496, 64362, 36310, 46796>>>>,
    <<<<16353, 45572, 44208, 12253>>, <<48223, 6412, 28875, 46591>>, <<16362, 43398, 34864, 35091>>, <<48139, 33750, 1997, 20592>>>>,
    <<<<16353, 59188, 12854, 22348>>, <<15474, 10815, 42228, 7514>>, <<16362, 34285, 17267, 57389>>, <<15465, 48646, 14430, 51090>>>>,
    <<<<16354, 7196, 6915, 38095>>, <<15454, 23346, 19235, 43569>>, <<16362, 25065, 59173, 34479>>, <<15493, 33584, 58109, 17727>>>>,
    <<<<16354, 20667, 37752, 35771>>, <<15486, 41936, 9303, 48334>>, <<16362, 15741, 850, 48591>>, <<48262, 36282, 60577, 38505>>>>,
    <<<<16354, 34065, 51479, 41063>>, <<48256, 7665, 55713, 27504>>, <<16362, 6311, 10670, 58437>>, <<15417, 24101, 29548, 856>>>>,
    <<<<16354, 47389, 60040, 16926>>, <<48271, 41841, 56097, 27312>>, <<16361, 62312, 60817, 12165>>, <<48257, 53760, 50553, 5638>>>>,
    <<<<16354, 60639, 10138, 12418>>, <<15501, 13655, 57575, 58238>>, <<16361, 52674, 58354, 24156>>, <<15491, 63889, 4761, 16226>>>>,
    <<<<16355, 8276, 45384, 48207>>, <<15503, 27458, 2394, 4955>>, <<16361, 42933, 41834, 25876>>, <<15495, 8911, 52383, 42921>>>>,
    <<<<16355, 21373, 47550, 871>>, <<15467, 12926, 31472, 16624>>, <<16361, 33089, 50222, 4880>>, <<15501, 8184, 1160, 61581>>>>,
    <<<<16355, 34393, 29782, 10283>>, <<48241, 4013, 43323, 1960>>, <<16361, 23143, 57356, 45565>>, <<48256, 48893, 41503, 34349>>>>,
    <<<<16355, 47335, 5538, 33802>>, <<48249, 30291, 42962, 61563>>, <<16361, 13096, 37485, 40594>>, <<48267, 46960, 864, 3290>>>>,
    <<<<16355, 60197, 54124, 54586>>, <<48219, 58736, 57687, 4032>>, <<16361, 2948, 30797, 56055>>, <<48240, 65201, 2745, 15239>>>>,
    <<<<16356, 7444, 58554, 26512>>, <<15492, 24719, 53895, 60661>>, <<16360, 58236, 12349, 39633>>, <<48228, 25508, 46397, 19448>>>>,
    <<<<16356, 20147, 33231, 14443>>, <<48259, 60780, 7786, 21765>>, <<16360, 47888, 23133, 51456>>, <<15496, 25568, 16020, 29889>>>>,
    <<<<16356, 32768, 58417, 5535>>, <<48267, 6474, 29795, 60688>>, <<16360, 37441, 39005, 34591>>, <<15500, 18649, 50195, 60804>>>>,
    <<<<16356, 45308, 18090, 46945>>, <<15392, 55813, 29580, 50586>>, <<16360, 26896, 36215, 42694>>, <<15475, 14591, 58047, 59869>>>>,
    <<<<16356, 57764, 58702, 54555>>, <<48266, 18735, 35255, 51050>>, <<16360, 16253, 56944, 7328>>, <<48193, 21199, 24731, 50920>>>>,
    <<<<16357, 4601, 64891, 13596>>, <<48261, 49384, 25028, 34865>>, <<16360, 5514, 12689, 27997>>, <<48237, 59577, 2946, 10462>>>>,
    <<<<16357, 16890, 52699, 46884>>, <<15474, 12994, 34080, 54161>>, <<16359, 60214, 11946, 5256>>, <<15450, 7525, 42149, 38303>>>>,
    <<<<16357, 29094, 38509, 22963>>, <<15452, 33851, 19727, 45464>>, <<16359, 49282, 32521, 58703>>, <<48236, 29654, 55082, 61032>>>>,
    <<<<16357, 41212, 39041, 14866>>, <<48269, 33506, 47060, 8827>>, <<16359, 38255, 52607, 25923>>, <<48266, 45686, 59860, 23268>>>>,
    <<<<16357, 53244, 5823, 36621>>, <<15497, 27827, 28907, 22410>>, <<16359, 27134, 50773, 8479>>, <<48232, 10197, 53132, 26821>>>>,
    <<<<16357, 65188, 21802, 40535>>, <<15488, 46798, 63470, 8375>>, <<16359, 15920, 5966, 64417>>, <<48229, 54190, 15764, 44383>>>>,
    <<<<16358, 11508, 39201, 44153>>, <<48270, 56728, 21942, 9242>>, <<16359, 4612, 28583, 30328>>, <<15492, 9648, 42242, 40065>>>>,
    <<<<16358, 23276, 10595, 59221>>, <<15489, 9977, 27505, 1340>>, <<16358, 58748, 32780, 62814>>, <<15494, 646, 57051, 53414>>>>,
    <<<<16358, 34954, 19987, 19247>>, <<48262, 47059, 30276, 54758>>, <<16358, 47256, 64158, 64349>>, <<15473, 23239, 34508, 62642>>>>,
    <<<<16358, 46542, 20663, 33306>>, <<48229, 54549, 36720, 11791>>, <<16358, 35674, 37611, 25171>>, <<48265, 43290, 55685, 63644>>>>,
    <<<<16358, 58039, 31808, 48609>>, <<48240, 59177, 34175, 44371>>, <<16358, 24001, 65003, 36026>>, <<48217, 31771, 18227, 31863>>>>,
    <<<<16359, 3909, 7434, 35904>>, <<15465, 32478, 14469, 30477>>, <<16358, 12239, 61953, 37319>>, <<15469, 37187, 35159, 22255>>>>,
    <<<<16359, 15222, 32990, 42360>>, <<48242, 9347, 1756, 4770>>, <<16358, 389, 9973, 25567>>, <<15492, 27813, 57572, 13008>>>>,
    <<<<16359, 26442, 63223, 46372>>, <<15486, 40255, 38060, 33960>>, <<16357, 53986, 22001, 61818>>, <<15488, 12609, 1224, 35115>>>>,
    <<<<16359, 37569, 53252, 7506>>, <<48266, 48901, 61107, 21739>>, <<16357, 41960, 14722, 16503>>, <<15492, 10410, 10073, 48738>>>>,
    <<<<16359, 48602, 24104, 46018>>, <<15434, 53529, 31949, 915>>, <<16357, 29847, 36238, 33778>>, <<15503, 18196, 44840, 11555>>>>,
    <<<<16359, 59539, 62723, 31065>>, <<15488, 61179, 43621, 3148>>, <<16357, 17649, 3929, 11429>>, <<48270, 31464, 59079, 42543>>>>,
    <<<<16360, 4845, 59822, 19364>>, <<48263, 33546, 57152, 11738>>, <<16357, 5365, 32123, 62426>>, <<15476, 31248, 32883, 49753>>>>>>

sn(n)  == FromBits(sincostab[n + 1][1])
ssn(n) == FromBits(sincostab[n + 1][2])
cs(n)  == FromBits(sincostab[n + 1][3])
ccs(n) == FromBits(sincostab[n + 1][4])

\* the constants of s_sin.c, as the words of their encodings
s1 == FromBits(<<49093, 21845, 21845, 21845>>)  \* -0x1.5555555555555p-3
s2 == FromBits(<<16257, 4369, 4369, 3790>>)  \* 0x1.1111111110ECEp-7
s3 == FromBits(<<48938, 416, 6619, 2232>>)  \* -0x1.A01A019DB08B8p-13
s4 == FromBits(<<16071, 7650, 31642, 32473>>)  \* 0x1.71DE27B9A7ED9p-19
s5 == FromBits(<<48730, 56831, 49916, 57177>>)  \* -0x1.ADDFFC2FCDF59p-26
sn3 == FromBits(<<49093, 21845, 21845, 21781>>)  \* -1.66666666666664880952546298448555E-01
sn5 == FromBits(<<16257, 4368, 59433, 34607>>)  \* 8.33333214285722277379541354343671E-03
cs2 == FromBits(<<16352, 0, 0, 0>>)  \* 4.99999999999999999999950396842453E-01
cs4 == FromBits(<<49061, 21845, 21845, 21813>>)  \* -4.16666666666664434524222570944589E-02
cs6 == FromBits(<<16214, 49515, 60889, 57913>>)  \* 1.38888874007937613028114285595617E-03
hp0 == FromBits(<<16377, 8699, 21572, 11544>>)  \* 1.5707963267948966, pi/2
hp1 == FromBits(<<15505, 42534, 13076, 23559>>)  \* 6.123233995736766e-17, what pi/2 leaves of hp0
big == FromBits(<<17096, 0, 0, 0>>)  \* 0x1.8p45
Half == FromBits(<<16352, 0, 0, 0>>)  \* 0.5
TaylorLimit == FromBits(<<16320, 8388, 39845, 58196>>)  \* 0.126
TinyLimit == FromBits(<<15936, 0, 0, 0>>)  \* high word 0x3e400000: 2^-27
CosLimit == FromBits(<<16363, 24576, 0, 0>>)  \* high word 0x3feb6000: 0.85546875
SinLimit == FromBits(<<16387, 26877, 0, 0>>)  \* high word 0x400368fd: 2.426265

\* POLYNOMIAL and TAYLOR_SIN: sin(a + da) for |a| < 0.126
POLYNOMIAL(xx) == FMA(FMA(FMA(FMA(s5, xx, s4), xx, s3), xx, s2), xx, s1)
TAYLOR_SIN(xx, a, da) ==
    FAdd(a, FMA(FMA(POLYNOMIAL(xx), a, FNeg(FMul(Half, da))), xx, da))

\* u.x - big: |x| to the nearest multiple of 1/128, and the place of that
\* multiple in the table (the low word of u in the source)
Nearest128(x) == FSub(FAdd(big, FAbs(x)), big)
TableIndex(t) == IF IsZero(t) THEN 0 ELSE Digit(ShiftLeft(t.m, t.e + 7), 1)

\* xx * (cs2 + xx * (cs4 + xx * cs6))
CosPolynomial(xx) == FMul(FMA(FMA(cs6, xx, cs4), xx, cs2), xx)

\* do_cos: cos(x + dx) for |x| < 0.855469; x below is the rest of the
\* argument, n the place of its multiple of 1/128
DoCosCor(s, c, n) ==
    FMA(FNeg(sn(n)), s, FMA(FNeg(cs(n)), c, FMA(FNeg(s), ssn(n), ccs(n))))
DoCosRest(x, xx, n) ==
    FAdd(cs(n),
         DoCosCor(FMA(FMul(x, xx), FMA(sn5, xx, sn3), x), CosPolynomial(xx), n))
DoCosAt(x, n) == DoCosRest(x, FMul(x, x), n)
do_cos(x, dx) ==
    DoCosAt(FAdd(FSub(FAbs(x), Nearest128(x)),
                 IF FLess(x, F(0)) THEN FNeg(dx) ELSE dx),
            TableIndex(Nearest128(x)))

\* do_sin: sin(x + dx) for |x| < 0.855469
DoSinCor(s, c, n) ==
    FMA(s, cs(n), FMA(FNeg(sn(n)), c, FMA(s, ccs(n), ssn(n))))
DoSinRest(x, xx, dx, n) ==
    FAdd(sn(n),
         DoSinCor(FAdd(FMA(FMul(x, xx), FMA(sn5, xx, sn3), dx), x),
                  FMA(dx, x, CosPolynomial(xx)), n))
DoSinAt(x, dx, n) == DoSinRest(x, FMul(x, x), dx, n)
do_sin(x, dx) ==
    IF FLess(FAbs(x), TaylorLimit) THEN TAYLOR_SIN(FMul(x, x), x, dx)
    ELSE CopySign(DoSinAt(FSub(FAbs(x), Nearest128(x)),
                          IF FLeq(x, F(0)) THEN FNeg(dx) ELSE dx,
                          TableIndex(Nearest128(x))),
                  x)

\* cos(x) for 0.855469 <= |x| < 2.426265: the sine of pi/2 - |x|
CosOfSin(y, a) == do_sin(a, FAdd(FSub(y, a), hp1))
CosFromSin(y) == CosOfSin(y, FAdd(y, hp1))

\* the bits a cosine is computed with before it is rounded, in digits of Base
CosDigits == 12

\* x * 2^(CosDigits * DigitBits), whole part, for a float x that is a number
Fixed(x) ==
    IF x.e + CosDigits * DigitBits >= 0
    THEN ShiftLeft(x.m, x.e + CosDigits * DigitBits)
    ELSE ShiftRight(x.m, -(x.e + CosDigits * DigitBits))

\* the series 1 - x^2/2! + x^4/4! - ... in that fixed point, x2 being x^2:
\* s holds the term t = x^2n/(2n)! that comes next and the sums of the terms
\* added and subtracted before it
RECURSIVE CosSeries(_, _)
CosSeries(x2, s) ==
    IF s.t = <<>> THEN s
    ELSE CosSeries(x2,
                   [t |-> NatShort(HighDigits(NatMul(s.t, x2), CosDigits),
                                   (2 * s.n + 1) * (2 * s.n + 2)).q,
                    n |-> s.n + 1,
                    plus |-> IF s.n % 2 = 0 THEN NatAdd(s.plus, s.t)
                             ELSE s.plus,
                    minus |-> IF s.n % 2 = 1 THEN NatAdd(s.minus, s.t)
                              ELSE s.minus])

CosRounded(s) ==
    IF NatLess(s.plus, s.minus)
    THEN Rounded(TRUE, NatSub(s.minus, s.plus), -(CosDigits * DigitBits), FALSE)
    ELSE Rounded(FALSE, NatSub(s.plus, s.minus), -(CosDigits * DigitBits), FALSE)

CosFixed(fx) ==
    CosRounded(CosSeries(HighDigits(NatMul(fx, fx), CosDigits),
                         [t |-> ShiftLeft(<<1>>, CosDigits * DigitBits),
                          n |-> 0, plus |-> <<>>, minus |-> <<>>]))

\* the double nearest to the cosine of x
CosNearest(x) == CosFixed(Fixed(x))

\* math.cos(x) for a float x that is a number: __cos of s_sin.c for
\* |x| < 2.426265, where every declination in radians lies (the code takes
\* the cosine of CRVAL2 after the asserts of lines 734-735); for the
\* arguments beyond, of which the code takes no cosine, the nearest double
Cos(x) ==
    IF MagLess(x, TinyLimit) THEN F(1)
    ELSE IF MagLess(x, CosLimit) THEN do_cos(x, Zero(FALSE))
    ELSE IF MagLess(x, SinLimit) THEN CosFromSin(FSub(hp0, FAbs(x)))
    ELSE CosNearest(x)

\* the whole degrees whose cosines are worked out once and kept
KeptDegrees == {-90, -60, 0, 60, 90}

\* line 781: math.cos(math.radians(crval2))
CosRadians(d) == Cos(Radians(d))
CosRadiansKept == [n \in KeptDegrees |-> CosRadians(F(n))]
CosDeg(d) ==
    IF \E n \in KeptDegrees : d = F(n)
    THEN CosRadiansKept[CHOOSE n \in KeptDegrees : d = F(n)]
    ELSE CosRadians(d)

\* lines 812 and 815: math.cos(crval2 * math.pi/180.0)
CosScaled(d) == Cos(FDiv(FMul(d, Pi), F(180)))
CosScaledKept == [n \in KeptDegrees |-> CosScaled(F(n))]
CosPiDeg(d) ==
    IF \E n \in KeptDegrees : d = F(n)
    THEN CosScaledKept[CHOOSE n \in KeptDegrees : d = F(n)]
    ELSE CosScaled(d)

\* float(v) for a header value
FloatOfValue(v) ==
    CASE v.t = "num"  -> Floated(F(v.n))
      [] v.t = "bool" -> Floated(F(IF v.b THEN 1 ELSE 0))
      [] OTHER        -> ParseFloat(v.s)

\* float(self.get_keyword(key))
FloatOf(hdr, key) ==
    IF key \notin DOMAIN hdr THEN NotFloated("KeyError")
    ELSE FloatOfValue(hdr[key])

\* the values of a sequence of conversions, or the first exception in it
Converted(r) ==
    IF \A k \in 1..Len(r) : r[k].kind = "ok"
    THEN [kind |-> "ok", v |-> [k \in 1..Len(r) |-> r[k].q]]
    ELSE [kind |-> r[CHOOSE k \in 1..Len(r) :
                        /\ r[k].kind # "ok"
                        /\ \A m \in 1..(k - 1) : r[m].kind = "ok"].kind,
          v |-> <<>>]

\* float(self.get_keyword(k)) for each k of keys in turn
Floats(hdr, keys) == Converted([k \in 1..Len(keys) |-> FloatOf(hdr, keys[k])])

get_reference_pixel(hdr) == Floats(hdr, <<"CRPIX1", "CRPIX2">>)

\* the two range tests with the upper end of the first one included
AssertRangesClosed(r) ==
    IF r.kind # "ok" THEN r
    ELSE IF ~(FLeq(F(0), r.v[1]) /\ FLeq(r.v[1], F(360)))
         THEN [kind |-> "AssertionError", v |-> <<>>]
    ELSE IF ~(FLeq(F(-90), r.v[2]) /\ FLeq(r.v[2], F(90)))
         THEN [kind |-> "AssertionError", v |-> <<>>]
    ELSE r

get_physical_reference_pixel_closed(hdr) ==
    AssertRangesClosed(Floats(hdr, <<"CRVAL1", "CRVAL2">>))

\* lines 732-735: assert 0.0 <= xv < 360.0 and assert -90.0 <= yv <= 90.0
AssertRanges(r) ==
    IF r.kind # "ok" THEN r
    ELSE IF ~(FLeq(F(0), r.v[1]) /\ FLess(r.v[1], F(360)))
         THEN [kind |-> "AssertionError", v |-> <<>>]
    ELSE IF ~(FLeq(F(-90), r.v[2]) /\ FLeq(r.v[2], F(90)))
         THEN [kind |-> "AssertionError", v |-> <<>>]
    ELSE r

get_physical_reference_pixel(hdr) ==
    AssertRanges(Floats(hdr, <<"CRVAL1", "CRVAL2">>))

\* PCi_j * CDELTi, evaluated keyword by keyword
ScaledPC(pcm, cdelt) ==
    [kind |-> "ok",
     v |-> <<FMul(pcm.v[1], cdelt.v[1]), FMul(pcm.v[2], cdelt.v[1]),
             FMul(pcm.v[3], cdelt.v[2]), FMul(pcm.v[4], cdelt.v[2])>>]

\* the try/except chain of get_pixel_coordinates over the four keyword sets
SelectMatrix(cd, cdelt, pcm, pcold) ==
    IF cd.kind = "ok" THEN cd
    ELSE IF cdelt.kind # "ok" THEN cdelt
    ELSE IF pcm.kind = "ok" THEN ScaledPC(pcm, cdelt)
    ELSE IF pcm.kind # "KeyError" THEN pcm
    ELSE IF pcold.kind = "ok" THEN ScaledPC(pcold, cdelt)
    ELSE pcold

get_pixel_coordinates(hdr) ==
    SelectMatrix(Floats(hdr, <<"CD1_1", "CD1_2", "CD2_1", "CD2_2">>),
                 Floats(hdr, <<"CDELT1", "CDELT2">>),
                 Floats(hdr, <<"PC1_1", "PC1_2", "PC2_1", "PC2_2">>),
                 Floats(hdr, <<"PC001001", "PC001002", "PC002001", "PC002002">>))

\* lines 778-782: the forward formula on offsets dx, dy from the reference pixel
Forward(crval, cd, dx, dy) ==
    <<FAdd(FDiv(FAdd(FMul(cd[1], dx), FMul(cd[2], dy)), CosDeg(crval[2])),
           crval[1]),
      FAdd(FAdd(FMul(cd[3], dx), FMul(cd[4], dy)), crval[2])>>

\* pixtoradec once the three getters have been called
PixToRadecWith(crpix, crval, cd, fx, fy) ==
    IF crpix.kind # "ok" THEN Raised(crpix.kind)
    ELSE IF crval.kind # "ok" THEN Raised(crval.kind)
    ELSE IF cd.kind # "ok" THEN Raised(cd.kind)
    ELSE OkVal(Forward(crval.v, cd.v,
                       FSub(F(fx), crpix.v[1]), FSub(F(fy), crpix.v[2])))

\* BareBonesWCS.pixtoradec((x, y), coords) on self.header = hdr
pixtoradec(hdr, x, y, coords) ==
    PixToRadecWith(get_reference_pixel(hdr), get_physical_reference_pixel(hdr),
                   get_pixel_coordinates(hdr),
                   IF coords = "data" THEN x + 1 ELSE x,
                   IF coords = "data" THEN y + 1 ELSE y)

\* the requested RA used as it is
Unwrapped(ra, crval1) == ra

\* lines 805-809: the RA used by the inverse formula
AdjustRA(ra, crval1) ==
    IF FLess(F(180), FSub(ra, crval1)) THEN FSub(ra, F(360))
    ELSE IF FLess(FSub(ra, crval1), F(-180)) THEN FAdd(ra, F(360))
    ELSE ra

\* lines 796-797: the determinant of the CD matrix
Determinant(cd) == FSub(FMul(cd[1], cd[4]), FMul(cd[2], cd[3]))

\* lines 811-818: the inverse formula on offsets dra, ddec from CRVAL, with
\* c the cosine of CRVAL2 and rmatrix # 0
Inverse(crpix, cd, rmatrix, c, dra, ddec) ==
    <<FAdd(FDiv(FSub(FMul(FMul(cd[4], c), dra), FMul(cd[2], ddec)), rmatrix),
           crpix[1]),
      FAdd(FDiv(FSub(FMul(cd[1], ddec), FMul(FMul(cd[3], c), dra)), rmatrix),
           crpix[2])>>

\* the pixel pair handed back as it is under either convention
ToCoordsUnshifted(p, coords) == p

\* lines 820-823: back to 0-based pixels for coords = 'data'
ToCoords(p, coords) ==
    IF coords = "data" THEN <<FSub(p[1], F(1)), FSub(p[2], F(1))>> ELSE p

\* radectopix once the three getters have been called, ra_deg and dec_deg
\* being floats
RadecToPixWith(crpix, crval, cd, ra_deg, dec_deg, coords) ==
    IF crpix.kind # "ok" THEN Raised(crpix.kind)
    ELSE IF crval.kind # "ok" THEN Raised(crval.kind)
    ELSE IF cd.kind # "ok" THEN Raised(cd.kind)
    ELSE IF FEq(Determinant(cd.v), F(0)) THEN Raised("WCSError")
    ELSE OkVal(ToCoords(Inverse(crpix.v, cd.v, Determinant(cd.v),
                                CosPiDeg(crval.v[2]),
                                FSub(AdjustRA(ra_deg, crval.v[1]), crval.v[1]),
                                FSub(dec_deg, crval.v[2])),
                        coords))

\* BareBonesWCS.radectopix(ra_deg, dec_deg, coords) on self.header = hdr
radectopix(hdr, ra_deg, dec_deg, coords) ==
    RadecToPixWith(get_reference_pixel(hdr), get_physical_reference_pixel(hdr),
                   get_pixel_coordinates(hdr), F(ra_deg), F(dec_deg), coords)

\* radectopix(ra, dec, coords) applied to the pair a call of pixtoradec gave
\* (or the exception of that call)
RadecToPixOf(hdr, sky, coords) ==
    IF sky.kind # "ok" THEN sky
    ELSE RadecToPixWith(get_reference_pixel(hdr),
                        get_physical_reference_pixel(hdr),
                        get_pixel_coordinates(hdr),
                        sky.val[1], sky.val[2], coords)

\* ra, dec = self.pixtoradec((x, y), coords); self.radectopix(ra, dec, coords)
radectopix_of_pixtoradec(hdr, x, y, coords) ==
    RadecToPixOf(hdr, pixtoradec(hdr, x, y, coords), coords)

----------------------------------------------------------------------------
(* The registry held fixed while an engine or a helper function runs: the  *)
(* module imported where every library is installed, then each native      *)
(* backend selected once (so that every engine class can be constructed).  *)

InitialGlobals ==
    [coord_types |-> <<>>, wcs_configured |-> FALSE,
     have_kapteyn |-> FALSE, have_astlib |-> FALSE,
     have_starlink |-> FALSE, have_astropy |-> FALSE,
     WCS |-> "BareBonesWCS", bound |-> {}, NUMPY_MODE |-> FALSE]

AllSelected ==
    use(use(use(use(InitialGlobals, "kapteyn", FALSE, Modules).g,
                "starlink", FALSE, Modules).g,
            "astlib", FALSE, Modules).g,
        "astropy", FALSE, Modules).g

RegFixed ==
    /\ env = Modules
    /\ coord_types = AllSelected.coord_types
    /\ wcs_configured = AllSelected.wcs_configured
    /\ have_kapteyn = AllSelected.have_kapteyn
    /\ have_astlib = AllSelected.have_astlib
    /\ have_starlink = AllSelected.have_starlink
    /\ have_astropy = AllSelected.have_astropy
    /\ WCS = AllSelected.WCS
    /\ bound = AllSelected.bound
    /\ NUMPY_MODE = AllSelected.NUMPY_MODE
    /\ pc = "running"
    /\ i = 1
    /\ call = [wcspkg |-> "astropy", raise_err |-> FALSE]
    /\ ret = "True"

----------------------------------------------------------------------------
(* The classifier applied to headers drawn from sample values.             *)

s_GLON_TAN == <<"G", "L", "O", "N", "-", "T", "A", "N">>
s_glon_car == <<"g", "l", "o", "n", "-", "c", "a", "r">>
s_ELON_TAN_padded == <<VerticalTab, "E", "L", "O", "N", "-", "T", "A", "N", "\t">>
s_RA_TAN == <<"R", "A", "-", "-", "-", "T", "A", "N">>
s_ra_sin_padded == <<"r", "a", "-", "-", "-", "s", "i", "n", " ">>
s_DEC_TAN == <<"D", "E", "C", "-", "-", "T", "A", "N">>
s_RA_two_dashes == <<"R", "A", "-", "-", "T", "A", "N">>
s_GLON == <<"G", "L", "O", "N">>
s_fk4_padded == <<" ", "f", "k", "4", VerticalTab>>
s_FK4_NO_E == <<"F", "K", "4", "-", "N", "O", "-", "E">>
s_GAPPT == <<"G", "A", "P", "P", "T">>

CTYPE1Values ==
    {Absent, Str(s_GLON_TAN), Str(s_glon_car), Str(s_ELON_TAN_padded),
     Str(s_RA_TAN), Str(s_ra_sin_padded), Str(s_DEC_TAN),
     Str(s_RA_two_dashes), Str(s_GLON), Str(<<>>), Num(1), Bool(TRUE)}
RADECSYSValues ==
    {Absent, Str(s_FK4), Str(s_fk4_padded), Str(s_FK5), Str(s_GAPPT), Num(1)}
RADESYSValues ==
    {Absent, Str(s_FK4), Str(s_ICRS), Str(s_FK4_NO_E), Bool(FALSE)}
EQUINOXValues == {Absent, Num(2000)}

ClassifyHeaders ==
    {Dict([k \in {"CTYPE1", "RADECSYS", "RADESYS", "EQUINOX"} |->
             CASE k = "CTYPE1"   -> c
               [] k = "RADECSYS" -> r1
               [] k = "RADESYS"  -> r2
               [] OTHER          -> e]) :
        c \in CTYPE1Values, r1 \in RADECSYSValues,
        r2 \in RADESYSValues, e \in EQUINOXValues}

InitClassify ==
    /\ RegFixed
    /\ kind = "None"
    /\ header = <<>>
    /\ wcs = "None"
    /\ coordsys = raw
    /\ icrs_trans = FALSE
    /\ caller \in ClassifyHeaders
    /\ op = [name |-> "none", args |-> <<>>]
    /\ out = NoOut
    /\ logged = FALSE

\* choose_coord_system(header) called on the caller's mapping
Classify ==
    /\ op' = [name |-> "choose_coord_system", args |-> <<>>]
    /\ out' = choose_coord_system(caller)
    /\ UNCHANGED <<regvars, kind, header, wcs, coordsys, icrs_trans, caller, logged>>

\* AstLibWCS.choose_coord_system(header) called on the caller's mapping
ClassifyAstLib ==
    /\ op' = [name |-> "AstLibWCS.choose_coord_system", args |-> <<>>]
    /\ out' = AstLibWCS_choose_coord_system(caller)
    /\ UNCHANGED <<regvars, kind, header, wcs, coordsys, icrs_trans, caller, logged>>

NextClassify == Classify \/ ClassifyAstLib

SpecClassify == InitClassify /\ [][NextClassify]_vars

----------------------------------------------------------------------------
(* One engine of any class: load_header and the pixel-to-system operation. *)

s_degree == <<"d", "e", "g", "r", "e", "e">>
s_azel   == <<"a", "z", "e", "l">>

EngineHeaders ==
    {Dict([k \in {"CTYPE1", "RADESYS", "CUNIT1"} |->
             CASE k = "CTYPE1"  -> c
               [] k = "RADESYS" -> r
               [] OTHER         -> u]) :
        c \in {Absent, Str(s_RA_TAN), Num(1)},
        r \in {Absent, Str(s_FK4_NO_E)},
        u \in {Absent, Str(s_degree), Num(1)}}

LibLoadOutcomes == {"ok", "raise", "raise_frame"}
LibOutcomes == {"ok", "raise"}
Systems == {NoneSystem, icrs, galactic, ecliptic, j2000, s_azel}

SetEngine(e) ==
    /\ header' = e.header
    /\ wcs' = e.wcs
    /\ coordsys' = e.coordsys
    /\ icrs_trans' = e.icrs_trans

InitEngine ==
    /\ RegFixed
    /\ kind \in {cls \in Variants : CanConstruct(cls)}
    /\ header = Constructed(kind).header
    /\ wcs = Constructed(kind).wcs
    /\ coordsys = Constructed(kind).coordsys
    /\ icrs_trans = Constructed(kind).icrs_trans
    /\ caller = <<>>
    /\ op = [name |-> "none", args |-> <<>>]
    /\ out = NoOut
    /\ logged = FALSE

\* engine.load_header(hdr) with hdr the caller's mapping: the engine's header
\* and the caller's mapping are the two objects the call leaves in its store
LoadHeader(hdr, lib) ==
    /\ lib = "raise_frame" => kind = "StarlinkWCS"
    /\ LET r == load_header(kind, Engine, hdr, lib) IN
       /\ SetEngine(r.e)
       /\ out' = r.out
       /\ logged' = r.logged
       /\ caller' = r.caller
    /\ op' = [name |-> "load_header", args |-> <<lib, hdr>>]
    /\ UNCHANGED <<regvars, kind>>

\* engine.pixtosystem(idxs, system) (pixtocoords for BareBonesWCS)
PixToSystem(system, libRadec, libConv) ==
    /\ out' = pixtosystem(kind, Engine, system, libRadec, libConv)
    /\ op' = [name |-> "pixtosystem", args |-> <<system, libRadec, libConv>>]
    /\ logged' = (kind # "BareBonesWCS" /\ coordsys # raw
                  /\ (kind = "StarlinkWCS" => icrs_trans /\ libConv = "ok")
                  /\ NativePixtoradecRaises(Engine, libRadec))
    /\ UNCHANGED <<regvars, kind, header, wcs, coordsys, icrs_trans, caller>>

NextEngine ==
    \/ \E hdr \in EngineHeaders, lib \in LibLoadOutcomes : LoadHeader(hdr, lib)
    \/ \E system \in Systems, libRadec \in LibOutcomes, libConv \in LibOutcomes :
          PixToSystem(system, libRadec, libConv)

SpecEngine == InitEngine /\ [][NextEngine]_vars

----------------------------------------------------------------------------
(* A BareBonesWCS engine holding a loaded header, and its transforms.      *)

MaxPix == 2

\* 10.0 spelled with a blank, a fraction and an exponent
s_1e1 == <<VerticalTab, "1", ".", "0", "e", "1">>
s_x  == <<"x">>

\* the CD matrix spelled with CD keywords
CDKeys(m) ==
    [k \in {"CD1_1", "CD1_2", "CD2_1", "CD2_2"} |->
        CASE k = "CD1_1" -> Num(m[1]) [] k = "CD1_2" -> Num(m[2])
          [] k = "CD2_1" -> Num(m[3]) [] OTHER -> Num(m[4])]

\* a PC matrix under either spelling, with CDELT1 = 2 and CDELT2 = 1
PCKeys(m, old) ==
    [k \in {"CDELT1", "CDELT2"} \cup
           (IF old THEN {"PC001001", "PC001002", "PC002001", "PC002002"}
                   ELSE {"PC1_1", "PC1_2", "PC2_1", "PC2_2"}) |->
        CASE k = "CDELT1" -> Num(2)
          [] k = "CDELT2" -> Num(1)
          [] k \in {"PC1_1", "PC001001"} -> Num(m[1])
          [] k \in {"PC1_2", "PC001002"} -> Num(m[2])
          [] k \in {"PC2_1", "PC002001"} -> Num(m[3])
          [] OTHER -> Num(m[4])]

Matrices == {<<0, 0, 0, 0>>, <<1, 2, 1, 2>>, <<-1, 0, 0, 1>>, <<2, 1, 1, 1>>}

\* CD keywords, PC keywords of either spelling, no matrix at all, and CD
\* keywords of which one is not a number
MatrixKeys ==
    {CDKeys(m) : m \in Matrices}
        \cup {PCKeys(<<1, 0, 0, 1>>, FALSE), PCKeys(<<1, 1, 2, 2>>, TRUE), <<>>,
              [CDKeys(<<1, 0, 0, 1>>) EXCEPT !["CD1_2"] = Str(s_x)]}

ReferenceKeys ==
    {Dict([k \in {"CRPIX1", "CRPIX2", "CRVAL1", "CRVAL2"} |->
             CASE k = "CRPIX1" -> p
               [] k = "CRPIX2" -> Num(1)
               [] k = "CRVAL1" -> Num(v1)
               [] OTHER        -> Num(v2)]) :
        p \in {Absent, Num(2), Str(s_1e1)},
        v1 \in {-1, 0, 359, 360},
        v2 \in {-91, -90, 0, 60, 90, 91}}

\* the union of two dicts with disjoint keys
Merge(a, b) ==
    [k \in DOMAIN a \cup DOMAIN b |-> IF k \in DOMAIN a THEN a[k] ELSE b[k]]

BareBonesHeaders == {Merge(r, m) : r \in ReferenceKeys, m \in MatrixKeys}

Pixels == 0..MaxPix
RAs == {10, 190, 359}
Decs == {0, 45}
Conventions == {"data", "fits"}

\* BareBonesWCS(logger) followed by load_header(hdr)
InitBareBones ==
    /\ RegFixed
    /\ kind = "BareBonesWCS"
    /\ caller \in BareBonesHeaders
    /\ LET r == BareBonesWCS_load_header(Constructed("BareBonesWCS"), caller) IN
       /\ header = r.e.header
       /\ wcs = r.e.wcs
       /\ coordsys = r.e.coordsys
       /\ icrs_trans = r.e.icrs_trans
       /\ out = r.out
       /\ logged = r.logged
    /\ op = [name |-> "load_header", args |-> <<>>]

\* the transforms leave the engine as load_header left it, so each call is
\* made on the engine in that state
PixToRadec(x, y, coords) ==
    /\ kind = "BareBonesWCS"
    /\ op.name = "load_header"
    /\ out' = pixtoradec(header, x, y, coords)
    /\ op' = [name |-> "pixtoradec", args |-> <<x, y, coords>>]
    /\ logged' = FALSE
    /\ UNCHANGED <<regvars, kind, header, wcs, coordsys, icrs_trans, caller>>

RadecToPix(ra, dec, coords) ==
    /\ kind = "BareBonesWCS"
    /\ op.name = "load_header"
    /\ out' = radectopix(header, ra, dec, coords)
    /\ op' = [name |-> "radectopix", args |-> <<ra, dec, coords>>]
    /\ logged' = FALSE
    /\ UNCHANGED <<regvars, kind, header, wcs, coordsys, icrs_trans, caller>>

NextBareBones ==
    \/ \E x \in Pixels, y \in Pixels, c \in Conventions : PixToRadec(x, y, c)
    \/ \E ra \in RAs, dec \in Decs, c \in Conventions : RadecToPix(ra, dec, c)

SpecBareBones == InitBareBones /\ [][NextBareBones]_vars

----------------------------------------------------------------------------
(* Claims about the registry.                                              *)

NativeNames == {"kapteyn", "starlink", "astlib", "astropy"}

\* every import the branch of use() for `n` attempts can be satisfied
LibraryAvailable(n, mods) ==
    CASE n = "kapteyn"  -> "kapteyn.wcs" \in mods
      [] n = "starlink" -> {"starlink.Ast", "starlink.Atl"} \subseteq mods
      [] n = "astlib"   -> /\ "astLib" \in mods
                           /\ ("astropy.io.fits" \in mods \/ "pyfits" \in mods)
      [] n = "astropy"  -> /\ \/ {"astropy.wcs", "astropy.io.fits"} \subseteq mods
                              \/ "pywcs" \in mods
                           /\ {"astropy.coordinates", "astropy.units"} \subseteq mods
      [] OTHER          -> FALSE

EngineClassOf(n) ==
    CASE n = "kapteyn"  -> "KapteynWCS"
      [] n = "starlink" -> "StarlinkWCS"
      [] n = "astlib"   -> "AstLibWCS"
      [] n = "astropy"  -> "AstropyWCS"
      [] OTHER          -> "BareBonesWCS"

SupportOf(n) ==
    CASE n = "kapteyn"  -> <<icrs, fk5, fk4, galactic, ecliptic>>
      [] n = "starlink" -> <<icrs, fk5, fk4, galactic, ecliptic>>
      [] n = "astlib"   -> <<j2000, b1950, galactic>>
      [] n = "astropy"  -> <<icrs, fk5, fk4, galactic>>
      [] OTHER          -> <<fk5>>

\* C1: a use() call that forces a native backend whose library is unavailable
\* raises in strict mode, returns False in lenient mode, and in both modes
\* leaves WCS and coord_types exactly as they were before the call.
C1_UnavailableBackendLeavesRegistry ==
    [][(/\ pc' = "running"
        /\ call'.wcspkg \in NativeNames
        /\ ~LibraryAvailable(call'.wcspkg, env))
       => (/\ ret' = (IF call'.raise_err THEN "ImportError" ELSE "False")
           /\ WCS' = WCS
           /\ coord_types' = coord_types)]_vars

\* C2: when the import-time probe has found no native backend (no use() call
\* of the loop returned True), the active class is BareBonesWCS and
\* coord_types is exactly ['fk5'].
C2_FallbackSupportIsFk5 ==
    (pc = "loaded" /\ ret # "True")
        => (WCS = "BareBonesWCS" /\ coord_types = <<fk5>>)

AvailableCandidates == {k \in 1..Len(ProbeOrder) : LibraryAvailable(ProbeOrder[k], env)}

FirstAvailable == CHOOSE k \in AvailableCandidates : \A m \in AvailableCandidates : k <= m

\* C3: the probe walks ProbeOrder and stops at the first available candidate:
\* when the module has been imported, the loop stands at the earliest
\* available candidate, and WCS and coord_types are that candidate's, also
\* when later candidates are available too.
C3_ProbeStopsAtFirstAvailable ==
    (pc = "loaded" /\ AvailableCandidates # {})
        => /\ i = FirstAvailable
           /\ call.wcspkg = ProbeOrder[FirstAvailable]
           /\ ret = "True"
           /\ WCS = EngineClassOf(ProbeOrder[FirstAvailable])
           /\ coord_types = SupportOf(ProbeOrder[FirstAvailable])

\* C3 witness: starlink was activated although astropy, later in the order,
\* is available too.
C3_Witness ==
    /\ pc = "loaded"
    /\ WCS = "StarlinkWCS"
    /\ ~LibraryAvailable("kapteyn", env)
    /\ LibraryAvailable("astropy", env)

----------------------------------------------------------------------------
(* Claims about the classifier.                                            *)

StartsWith(s, prefix) ==
    Len(s) >= Len(prefix) /\ SubSeq(s, 1, Len(prefix)) = prefix

\* CTYPE1 of the caller's header as the classifier normalises it
NormCTYPE1 == Upper(Strip(caller["CTYPE1"].s))

HasStrCTYPE1 == "CTYPE1" \in DOMAIN caller /\ caller["CTYPE1"].t = "str"

\* the frame keyword the table reads: RADECSYS, else RADESYS
HasFrame == "RADECSYS" \in DOMAIN caller \/ "RADESYS" \in DOMAIN caller
Frame == IF "RADECSYS" \in DOMAIN caller THEN caller["RADECSYS"]
         ELSE caller["RADESYS"]
IsRA == HasStrCTYPE1 /\ StartsWith(NormCTYPE1, p_RA)

\* C6: choose_coord_system follows the classification table: no CTYPE1 ->
\* 'raw'; GLON- -> 'galactic'; ELON- -> 'ecliptic'; RA--- -> the frame read
\* from RADECSYS first, then RADESYS, a frame FK4 giving 'fk4'; with neither
\* keyword EQUINOX gives 'fk5' and otherwise 'icrs'; a CTYPE1 matching no
\* pattern -> 'icrs'.
C6_ClassificationTable ==
    op.name = "choose_coord_system" =>
        /\ "CTYPE1" \notin DOMAIN caller => out = Ok(raw)
        /\ (HasStrCTYPE1 /\ StartsWith(NormCTYPE1, p_GLON)) => out = Ok(galactic)
        /\ (HasStrCTYPE1 /\ StartsWith(NormCTYPE1, p_ELON)) => out = Ok(ecliptic)
        /\ (IsRA /\ HasFrame /\ Frame.t = "str")
              => (out = Ok(fk4) <=> Upper(Strip(Frame.s)) = s_FK4)
        /\ (IsRA /\ ~HasFrame /\ "EQUINOX" \in DOMAIN caller) => out = Ok(fk5)
        /\ (IsRA /\ ~HasFrame /\ "EQUINOX" \notin DOMAIN caller) => out = Ok(icrs)
        /\ (/\ HasStrCTYPE1
            /\ ~StartsWith(NormCTYPE1, p_GLON)
            /\ ~StartsWith(NormCTYPE1, p_ELON)
            /\ ~StartsWith(NormCTYPE1, p_RA)) => out = Ok(icrs)

\* C6 witness: an RA--- header with both frame keywords, RADESYS saying FK4
\* and RADECSYS saying FK5, classified by RADECSYS.
C6_Witness ==
    /\ op.name = "choose_coord_system"
    /\ IsRA
    /\ "RADECSYS" \in DOMAIN caller /\ caller["RADECSYS"] = Str(s_FK5)
    /\ "RADESYS" \in DOMAIN caller /\ caller["RADESYS"] = Str(s_FK4)
    /\ out = Ok(fk5)

\* C7: every tag the classifier returns is in the closed set {raw, icrs, fk5,
\* fk4, galactic, ecliptic} (raw, j2000, b1950, galactic for the astLib
\* variant), and for an RA--- projection a frame string equal to FK4 after
\* trim and uppercase gives the 1950-epoch tag and every other frame string
\* the modern-frame tag.
C7_TagInClosedSet ==
    /\ (op.name = "choose_coord_system" /\ out.kind = "ok") =>
          /\ out.tag \in {raw, icrs, fk5, fk4, galactic, ecliptic}
          /\ (IsRA /\ HasFrame /\ Frame.t = "str") =>
                IF Upper(Strip(Frame.s)) = s_FK4
                THEN out.tag = fk4 ELSE out.tag \in {icrs, fk5}
    /\ (op.name = "AstLibWCS.choose_coord_system" /\ out.kind = "ok") =>
          /\ out.tag \in {raw, j2000, b1950, galactic}
          /\ (IsRA /\ HasFrame /\ Frame.t = "str") =>
                IF Upper(Strip(Frame.s)) = s_FK4
                THEN out.tag = b1950 ELSE out.tag = j2000

\* C8: classification never raises: for every header whose values are
\* floats, strings or booleans the classifier returns a tag.
C8_ClassificationNeverRaises ==
    op.name \in {"choose_coord_system", "AstLibWCS.choose_coord_system"}
        => out.kind = "ok"

----------------------------------------------------------------------------
(* Claims about the engines.                                               *)

\* the systems each engine class supports
SupportedBy(cls) ==
    CASE cls = "AstropyWCS"  -> {icrs, fk5, fk4, galactic}
      [] cls = "AstLibWCS"   -> {j2000, b1950, galactic}
      [] cls = "KapteynWCS"  -> {icrs, fk5, fk4, galactic, ecliptic}
      [] cls = "StarlinkWCS" -> {icrs, fk5, fk4, galactic, ecliptic}
      [] OTHER               -> {fk5}

\* C4: after a load_header of a native-backed engine in which the backend
\* raised (the except clause ran), the engine is unbound: wcs is None and
\* coordsys is 'raw', whatever was loaded before and however far the load got.
C4_FailedLoadLeavesUnbound ==
    (op.name = "load_header" /\ kind # "BareBonesWCS" /\ logged)
        => (wcs = "None" /\ coordsys = raw)

\* C5: for every engine class the pixel-to-system operation raises WCSError
\* when the engine is unbound (coordsys 'raw'), when its classified system is
\* not in the class's supported set, or when the requested system is not.
C5_PixToSystemRaisesWCSError ==
    (/\ op.name = "pixtosystem"
     /\ \/ coordsys = raw
        \/ coordsys \notin SupportedBy(kind)
        \/ (op.args[1] # NoneSystem /\ op.args[1] \notin SupportedBy(kind)))
        => out.kind = "WCSError"

----------------------------------------------------------------------------
(* Claims about the fallback engine.                                       *)

\* the CD matrix of the loaded header is singular
SingularMatrix ==
    /\ get_pixel_coordinates(header).kind = "ok"
    /\ FEq(Determinant(get_pixel_coordinates(header).v), F(0))

\* C9: in the fallback engine, whenever the CD matrix of the loaded header
\* has determinant 0 (and the reference pixel can be read), radectopix raises
\* WCSError, for every (ra, dec) and both pixel conventions.
C9_SingularMatrixRaisesWCSError ==
    (/\ op.name = "radectopix"
     /\ get_reference_pixel(header).kind = "ok"
     /\ SingularMatrix)
        => out.kind = "WCSError"

\* the ranges the reference sky values must lie in
AcceptedCRVAL ==
    /\ 0 <= header["CRVAL1"].n /\ header["CRVAL1"].n < 360
    /\ -90 <= header["CRVAL2"].n /\ header["CRVAL2"].n <= 90

\* C10: in the fallback engine the reference sky values are accepted exactly
\* when 0 <= CRVAL1 < 360 and -90 <= CRVAL2 <= 90, and with a rejected value
\* pixtoradec and radectopix both fail with an error and return no
\* coordinate.
C10_ReferenceValuesRangeChecked ==
    /\ (get_physical_reference_pixel(header).kind = "ok") <=> AcceptedCRVAL
    /\ (op.name \in {"pixtoradec", "radectopix"} /\ ~AcceptedCRVAL)
           => (out.kind \notin {"ok", "None", "none"} /\ out.val = <<>>)

\* a transform has been refused for CRVAL1 = 360 where the pixel and the
\* matrix are fine
C10_Witness ==
    /\ header["CRVAL1"] = Num(360)
    /\ header["CRVAL2"] = Num(90)
    /\ get_reference_pixel(header).kind = "ok"
    /\ get_pixel_coordinates(header).kind = "ok"
    /\ op.name = "pixtoradec"
    /\ out.kind = "AssertionError"

----------------------------------------------------------------------------
(* The fallback engine's two transforms composed: a pixel is sent to the   *)
(* sky and the answer is sent back, under one pixel convention.            *)

\* nonsingular matrices of a fine and of a coarse pixel scale, and a
\* singular one
RoundTripMatrices ==
    {<<2, 1, 1, 1>>, <<-1, 0, 0, 1>>, <<10, 0, 0, 1>>, <<1, 2, 1, 2>>}

\* a declination whose cosine math.cos does not round to the nearest double
s_76_3 == <<"7", "6", ".", "3">>

RoundTripReferenceKeys ==
    {Dict([k \in {"CRPIX1", "CRPIX2", "CRVAL1", "CRVAL2"} |->
             CASE k = "CRPIX1" -> p
               [] k = "CRPIX2" -> Num(1)
               [] k = "CRVAL1" -> Num(v1)
               [] OTHER        -> v2]) :
        p \in {Num(2), Num(10), Str(s_1e1)},
        v1 \in {0, 359, 360}, v2 \in {Num(0), Num(60), Str(s_76_3)}}

RoundTripHeaders ==
    {Merge(r, m) : r \in RoundTripReferenceKeys,
                   m \in {CDKeys(cd) : cd \in RoundTripMatrices}
                             \cup {PCKeys(<<1, 0, 0, 1>>, FALSE)}}

\* BareBonesWCS(logger) followed by load_header(hdr)
InitRoundTrip ==
    /\ RegFixed
    /\ kind = "BareBonesWCS"
    /\ caller \in RoundTripHeaders
    /\ LET r == BareBonesWCS_load_header(Constructed("BareBonesWCS"), caller) IN
       /\ header = r.e.header
       /\ wcs = r.e.wcs
       /\ coordsys = r.e.coordsys
       /\ icrs_trans = r.e.icrs_trans
       /\ out = r.out
       /\ logged = r.logged
    /\ op = [name |-> "load_header", args |-> <<>>]

\* ra, dec = e.pixtoradec((x, y), coords); e.radectopix(ra, dec, coords)
RoundTrip(x, y, coords) ==
    /\ kind = "BareBonesWCS"
    /\ op.name = "load_header"
    /\ out' = radectopix_of_pixtoradec(header, x, y, coords)
    /\ op' = [name |-> "radectopix_of_pixtoradec", args |-> <<x, y, coords>>]
    /\ logged' = FALSE
    /\ UNCHANGED <<regvars, kind, header, wcs, coordsys, icrs_trans, caller>>

NextRoundTrip ==
    \E x \in Pixels, y \in Pixels, c \in Conventions : RoundTrip(x, y, c)

SpecRoundTrip == InitRoundTrip /\ [][NextRoundTrip]_vars

\* the loaded header has a reference pixel, reference sky values in range
\* and a matrix that can be inverted
Invertible ==
    /\ get_reference_pixel(header).kind = "ok"
    /\ get_physical_reference_pixel(header).kind = "ok"
    /\ get_pixel_coordinates(header).kind = "ok"
    /\ ~FEq(Determinant(get_pixel_coordinates(header).v), F(0))

\* the floating-point tolerance of a round trip: 1e-6 pixel
Tolerance == ParseFloat(<<"1", "e", "-", "6">>).q

\* a and b are numbers at most Tolerance apart
Near(a, b) ==
    /\ FLeq(FSub(a, b), Tolerance)
    /\ FLeq(FSub(b, a), Tolerance)

\* C11: in the fallback engine, for every pixel (x, y) of the region, every
\* CD matrix with nonzero determinant and every valid CRPIX / CRVAL,
\* radectopix(pixtoradec((x, y), c), c) is (x, y) within the floating-point
\* tolerance, for c = 'data' and for c = 'fits'.
C11_RoundTrip ==
    (op.name = "radectopix_of_pixtoradec" /\ Invertible)
        => /\ out.kind = "ok"
           /\ Near(out.val[1], F(op.args[1]))
           /\ Near(out.val[2], F(op.args[2]))

----------------------------------------------------------------------------
(* Claims about the pixel conventions of the fallback engine.              *)

\* a pixel pair one unit lower on each axis (an exception stays as it is)
OneLower(r) ==
    IF r.kind = "ok"
    THEN OkVal(<<FSub(r.val[1], F(1)), FSub(r.val[2], F(1))>>)
    ELSE r

\* C12: in the fallback engine, for every pixel p and every loaded header,
\* pixtoradec(p, 'data') equals pixtoradec(p + (1, 1), 'fits'), and
\* radectopix(ra, dec, 'data') equals radectopix(ra, dec, 'fits') minus 1 on
\* each axis.
C12_ConventionSymmetry ==
    /\ (op.name = "pixtoradec" /\ op.args[3] = "data")
           => out = pixtoradec(header, op.args[1] + 1, op.args[2] + 1, "fits")
    /\ (op.name = "radectopix" /\ op.args[3] = "data")
           => out = OneLower(radectopix(header, op.args[1], op.args[2], "fits"))

\* a sky position has been turned into a 0-based pixel
C12_Witness ==
    /\ op.name = "radectopix"
    /\ op.args[3] = "data"
    /\ out.kind = "ok"
    /\ radectopix(header, op.args[1], op.args[2], "fits").kind = "ok"

----------------------------------------------------------------------------
(* Claims about the caller's metadata and its normalized copy.             *)

\* C13: no engine operation changes the caller's metadata: after
\* load_header(hdr) on any engine variant, the unit normalization included,
\* the caller's mapping is hdr as it was passed, and every later transform
\* leaves it as it is; only the engine's own header is rewritten.
C13_CallerMetadataUnchanged ==
    [][/\ op'.name = "load_header" => caller' = op'.args[2]
       /\ op'.name # "load_header" => caller' = caller]_vars

\* a load has rewritten the unit in the engine's header and the caller's
\* mapping still holds the unit as the caller spelled it
C13_Witness ==
    /\ op.name = "load_header"
    /\ "CUNIT1" \in DOMAIN caller
    /\ caller["CUNIT1"] = Str(s_degree)
    /\ header["CUNIT1"] = Str(s_deg)

\* the value is a string equal to 'degree' whatever its case
IsDegree(v) == v.t = "str" /\ Lower(v.s) = s_degree

\* C14: the normalizer run by load_header rewrites CUNIT1 and CUNIT2 to
\* 'deg' exactly when their value is case-insensitively equal to 'degree',
\* leaves every other key and value as passed, adds no key, and never
\* raises, whatever the mapping holds.
C14_NormalizerRewritesDegree ==
    op.name = "load_header" =>
        /\ ~fix_bad_headers(op.args[2]).raised
        /\ DOMAIN header = DOMAIN op.args[2]
        /\ \A k \in DOMAIN header :
              header[k] = IF k \in {"CUNIT1", "CUNIT2"} /\ IsDegree(op.args[2][k])
                          THEN Str(s_deg)
                          ELSE op.args[2][k]

----------------------------------------------------------------------------
(* Claims about the RA wrap of the fallback engine's inverse transform.    *)

\* used is within 180 degrees of crval1 and a whole turn or nothing away
\* from ra
WithinHalfTurn(ra, crval1, used) ==
    /\ FLeq(FSub(used, crval1), F(180))
    /\ FLeq(F(-180), FSub(used, crval1))
    /\ FSub(used, ra) \in {F(0), F(360), F(-360)}

\* C15: in the fallback engine's radectopix, for every requested RA in
\* [0, 360) and every valid CRVAL1 in [0, 360), the RA used in the inverse
\* formula after the wrap step differs from CRVAL1 by at most 180 degrees
\* and from the requested RA by 0, +360 or -360.
C15_WrappedRAWithinHalfTurn ==
    (/\ op.name = "radectopix"
     /\ 0 <= op.args[1] /\ op.args[1] < 360
     /\ get_physical_reference_pixel(header).kind = "ok")
        => WithinHalfTurn(F(op.args[1]),
                          get_physical_reference_pixel(header).v[1],
                          AdjustRA(F(op.args[1]),
                                   get_physical_reference_pixel(header).v[1]))

\* a requested RA of 190 has been wrapped to -170 around CRVAL1 = 0 and the
\* pixel computed from it
C15_Witness ==
    /\ op.name = "radectopix"
    /\ op.args[1] = 190
    /\ header["CRVAL1"] = Num(0)
    /\ out.kind = "ok"
    /\ AdjustRA(F(op.args[1]), F(0)) = F(-170)

----------------------------------------------------------------------------
(* Claims about the value use() returns.                                   *)

\* C16: the value of use(name, raise_err=False) tells whether the registry
\* changed: True means the call made the named backend active (WCS and
\* coord_types are that backend's), and a call that returns False has left
\* WCS and coord_types as they were.  The calls of the import-time probe are
\* calls of this kind.
C16_ReturnValueTellsChange ==
    [][(pc # "start" /\ ~call'.raise_err)
       => (/\ ret' \in {"True", "False"}
           /\ ret' = "True"
                 => (/\ WCS' = EngineClassOf(call'.wcspkg)
                     /\ coord_types' = SupportOf(call'.wcspkg))
           /\ ret' = "False"
                 => (WCS' = WCS /\ coord_types' = coord_types))]_vars

====
